---- MODULE Spec2Model ----
(***************************************************************************)
(* A model of the signal externals of little-scale-modular-like-externals. *)
(* Every external is an independent program: one run instantiates one      *)
(* external (variable run) and drives it with the host's calls: dsp64,     *)
(* perform64 (one action per processed sample: a block of n samples is n   *)
(* consecutive one-sample blocks, the loop carries all its state in the    *)
(* object), and the float / int / bang / named messages and attribute      *)
(* setters.                                                                *)
(*                                                                         *)
(* Numbers.  The oscillators' doubles are modelled as binary floating      *)
(* point numbers with PrecBits significant bits whose smallest magnitude   *)
(* is 2^-FracBits: every arithmetic result is rounded to nearest, ties to  *)
(* even, exactly as IEEE-754 does with 53 bits.  Phases, positions and     *)
(* sr_inv are counted in units of 2^-FracBits, frequencies in mHz.         *)
(* The envelopes (slewenv~, decay~) work far above the rounding            *)
(* granularity (their increments are clamped away from 0) and use fixed    *)
(* point with ENV_ONE units per 1.0.                                       *)
(***************************************************************************)
EXTENDS Integers, Sequences, FiniteSets, TLC

FracBits == 16
PrecBits == 3

RECURSIVE Pow2(_)
Pow2(n) == IF n <= 0 THEN 1 ELSE 2 * Pow2(n - 1)

\* The double 1.0 in phase units.
One == Pow2(FracBits)

Abs(v) == IF v < 0 THEN -v ELSE v

\* Integer division rounded to nearest (ties away from zero), d > 0.
DivNearest(n, d) ==
    IF n >= 0 THEN (2 * n + d) \div (2 * d) ELSE -((2 * (-n) + d) \div (2 * d))

\* Spacing of the floating point format at magnitude m.
RECURSIVE Ulp(_, _)
Ulp(m, step) == IF m < Pow2(PrecBits) * step THEN step ELSE Ulp(m, 2 * step)

RoundMag(m) ==
    LET s == Ulp(m, 1)
        q == m \div s
        r == m % s
    IN  IF 2 * r < s THEN q * s
        ELSE IF 2 * r > s THEN (q + 1) * s
        ELSE IF q % 2 = 0 THEN q * s ELSE (q + 1) * s

\* Round to the nearest representable double.
Fl(v) == IF v < 0 THEN -RoundMag(-v) ELSE RoundMag(v)

\* CLAMP(a, lo, hi) of ext_common: (a > lo) ? ((a < hi) ? a : hi) : lo
CLAMP(a, lo, hi) == IF a > lo THEN (IF a < hi THEN a ELSE hi) ELSE lo

Fmax(a, b) == IF a > b THEN a ELSE b
Fmin(a, b) == IF a < b THEN a ELSE b

\* while (p >= 1.0) p -= 1.0;  (each subtraction rounded)
RECURSIVE WrapDown(_)
WrapDown(p) == IF p >= One THEN WrapDown(Fl(p - One)) ELSE p

\* while (p < 0.0) p += 1.0;  (each addition rounded)
RECURSIVE WrapUp(_)
WrapUp(p) == IF p < 0 THEN WrapUp(Fl(p + One)) ELSE p

\* The two while loops of the oscillators, in the order of the source.
WrapLoops(p) == WrapUp(WrapDown(p))

\* 1.0 / samplerate
SrInv(sr) == Fl(DivNearest(One * 1, sr))

\* freq * sr_inv, freq in mHz
FreqTimesSrInv(freq, sr_inv) == Fl(DivNearest(freq * sr_inv, 1000))

\* log2 of a power of two
RECURSIVE Log2(_)
Log2(s) == IF s <= 1 THEN 0 ELSE 1 + Log2(s \div 2)

\* a * b for a in phase units (a / One is the factor) and b in any unit:
\* the product of the two mantissas, scaled and rounded.
FMulOne(a, b) ==
    LET sa == Ulp(Abs(a), 1)
        sb == Ulp(Abs(b), 1)
        m == (Abs(a) \div sa) * (Abs(b) \div sb)
        k == Log2(sa) + Log2(sb) - FracBits
        mag == IF k >= 0 THEN m * Pow2(k) ELSE DivNearest(m, Pow2(-k))
    IN  IF (a < 0) # (b < 0) THEN -RoundMag(mag) ELSE RoundMag(mag)

\* Sample values, levels and angles are counted in thousandths.
MILLI == 1000

\* cos and sin of an angle in [0, pi/2], angle and value in thousandths.
NzCos(t) ==
    LET t2 == DivNearest(t * t, MILLI)
    IN  MILLI - t2 \div 2 + DivNearest(t2 * t2, 24 * MILLI)
        - DivNearest(DivNearest(t2 * t2, MILLI) * t2, 720 * MILLI)

NzSin(t) ==
    LET t2 == DivNearest(t * t, MILLI)
    IN  t - DivNearest(t * t2, 6 * MILLI)
        + DivNearest(DivNearest(t * t2, MILLI) * t2, 120 * MILLI)

\* The integer square root of n, between lo and hi.
RECURSIVE ISqrtB(_, _, _)
ISqrtB(n, lo, hi) ==
    IF lo >= hi THEN lo
    ELSE LET mid == (lo + hi + 1) \div 2
         IN  IF mid * mid <= n THEN ISqrtB(n, mid, hi) ELSE ISqrtB(n, lo, mid - 1)

\* The sum of a sequence of numbers.
RECURSIVE SeqSum(_)
SeqSum(q) == IF q = <<>> THEN 0 ELSE Head(q) + SeqSum(Tail(q))

\* Sample rates the host hands to dsp64 (Hz).
SrVals == {8000, 44100}
\* sys_getsr() at construction.
SysSr == 44100

\* Frequencies (mHz) arriving by stream or message.
FreqIn == {Fl(-1000), Fl(440000), Fl(50000000)}
\* Unit-range values (x, y, phase offset, shape ...) arriving by stream or message.
UnitIn == {2 * One}

VARIABLES run, c2d, elfo, rlfo, cfold, hosc, senv, trig,
          dec, attack_samples, dout, since, ssm, vca, noi, vac,
          nz, nrun, dp, fw, ssm_n, obs

vars == <<run, c2d, elfo, rlfo, cfold, hosc, senv, trig,
          dec, attack_samples, dout, since, ssm, vca, noi, vac,
          nz, nrun, dp, fw, ssm_n, obs>>

\* Objects that exist more than once in a patch: nz[i] is the i-th noises~
\* object, nrun[i] what it was given and what it wrote since its last seed;
\* dp holds two decay~ objects; fw is the last call of the folding function;
\* ssm_n counts the samples the filter has processed; obs is what the last
\* call of a handler read, wrote and returned besides the fields it stored.
insVars == <<nz, nrun, dp, fw, ssm_n, obs>>

\* No call whose reads and writes are kept was the last one.
ObsInit == [call |-> "none"]

\* The same without obs, for the handlers whose reads and writes are kept.
notObs == <<nz, nrun, dp, fw, ssm_n>>

\* The objects of ssm2044~, modvca~, noises~ and vactrol~.
fltVars == <<ssm, vca, noi, vac>>

\* The variables of decay~: the object, the function-local static counter of
\* decay_perform64, the last sample written to the outlet, and a history
\* variable (0: a bang arrived since the last processed sample or none was
\* processed yet, 1: no bang but peak, curve, mode or patching changed,
\* 2: nothing but processed samples and decay-time changes).
decVars == <<dec, attack_samples, dout, since>>

(***************************************************************************)
(* cycle-2d~                                                               *)
(***************************************************************************)
C2D_MAX_FREQ == 20000000

\* Samples of one stored table in the model (4096 in the source) and the
\* number of table slots.
WAVETABLE_SIZE == 1
MAX_CUSTOM_TABLES == 16

\* Samples of one corner table in the model (also WAVETABLE_SIZE in the
\* source); every table carries its length.
CornerSize == 4

CORNER_SINE == 0
CORNER_TRIANGLE == 1
CORNER_SAW == 2
CORNER_SQUARE == 3

\* sin(2.0 * PI * num / den) for 0 <= num < den, in thousandths.
Sin2Pi(num, den) ==
    LET Quadrant(q, theta) ==
            CASE q = 0 -> NzSin(theta)
              [] q = 1 -> NzCos(theta)
              [] q = 2 -> -NzSin(theta)
              [] OTHER -> -NzCos(theta)
    IN  Quadrant((4 * num) \div den,
                 DivNearest(1571 * (4 * num - ((4 * num) \div den) * den), den))

\* The table generators; entry i + 1 is table[i].
generate_sine_table(size) == [j \in 1..size |-> Sin2Pi(j - 1, size)]

generate_triangle_table(size) ==
    [j \in 1..size |->
        IF 4 * (j - 1) < size THEN DivNearest(4 * (j - 1) * MILLI, size)
        ELSE IF 4 * (j - 1) < 3 * size
             THEN 2 * MILLI - DivNearest(4 * (j - 1) * MILLI, size)
        ELSE DivNearest(4 * (j - 1) * MILLI, size) - 4 * MILLI]

generate_saw_table(size) == [j \in 1..size |-> DivNearest(2 * (j - 1) * MILLI, size) - MILLI]

generate_square_table(size) == [j \in 1..size |-> IF 2 * (j - 1) < size THEN MILLI ELSE -MILLI]

generate_sine_harmonic_table(size, harmonic) ==
    [j \in 1..size |-> Sin2Pi(((j - 1) * harmonic) % size, size)]

\* corner_tables[c + 1] is the table of corner c.
init_corner_tables(x) ==
    [x EXCEPT !.corner_tables =
        IF x.corner_mode = 1
        THEN <<generate_sine_table(CornerSize),
               generate_sine_harmonic_table(CornerSize, 2),
               generate_sine_harmonic_table(CornerSize, 3),
               generate_sine_harmonic_table(CornerSize, 4)>>
        ELSE <<generate_sine_table(CornerSize), generate_triangle_table(CornerSize),
               generate_saw_table(CornerSize), generate_square_table(CornerSize)>>]

\* phase in phase units, the value read in thousandths.
wavetable_lookup(table, phase) ==
    LET Read(index, fract) ==
            IF index >= Len(table) - 1 THEN table[Len(table)]
            ELSE DivNearest(table[index + 1] * (One - fract) + table[index + 2] * fract, One)
    IN  Read((phase * (Len(table) - 1)) \div One,
             phase * (Len(table) - 1) - ((phase * (Len(table) - 1)) \div One) * One)

\* The interpolation between the four corner samples; positions in phase
\* units.
corner_interpolate(x, x_pos, y_pos, phase) ==
    LET Lerp(a, b, t) == DivNearest(a * (One - t) + b * t, One)
    IN  Lerp(Lerp(wavetable_lookup(x.corner_tables[CORNER_SINE + 1], phase),
                  wavetable_lookup(x.corner_tables[CORNER_SAW + 1], phase), x_pos),
             Lerp(wavetable_lookup(x.corner_tables[CORNER_TRIANGLE + 1], phase),
                  wavetable_lookup(x.corner_tables[CORNER_SQUARE + 1], phase), x_pos),
             y_pos)

\* weight = 1.0 / (1.0 + distance * 2.0) of table slot i, in thousandths, 0
\* for an inactive slot.
custom_weight(x, i, x_pos, y_pos) ==
    LET Weight(dx, dy) ==
            DivNearest(MILLI * MILLI, MILLI + 2 * ISqrtB(dx * dx + dy * dy, 0, 2 * MILLI))
    IN  IF x.custom_tables[i].active = 0 THEN 0
        ELSE Weight(DivNearest((x_pos - x.custom_tables[i].x_pos) * MILLI, One),
                    DivNearest((y_pos - x.custom_tables[i].y_pos) * MILLI, One))

\* The blend of the corner interpolation with the slots 1..n.
custom_blend(x, n, x_pos, y_pos, phase) ==
    LET Blend(corner_result, weighted_sum, total_weight) ==
            IF total_weight > 0
            THEN DivNearest(
                     corner_result * (MILLI - DivNearest(total_weight * MILLI, total_weight + MILLI))
                     + DivNearest(weighted_sum, total_weight)
                       * DivNearest(total_weight * MILLI, total_weight + MILLI), MILLI)
            ELSE corner_result
    IN  Blend(corner_interpolate(x, x_pos, y_pos, phase),
              SeqSum([i \in 1..n |-> wavetable_lookup(x.custom_tables[i].wavetable, phase)
                                      * custom_weight(x, i, x_pos, y_pos)]),
              SeqSum([i \in 1..n |-> custom_weight(x, i, x_pos, y_pos)]))

\* The loop over the table slots running over every slot of the array.
bilinear_interpolate_allslots(x, x_pos, y_pos, phase) ==
    custom_blend([x EXCEPT !.custom_tables =
                     [i \in 1..MAX_CUSTOM_TABLES |-> [x.custom_tables[i] EXCEPT !.active = 1]]],
                 MAX_CUSTOM_TABLES, x_pos, y_pos, phase)

bilinear_interpolate(x, x_pos, y_pos, phase) ==
    custom_blend(x, x.num_custom_tables, x_pos, y_pos, phase)

nearest_neighbor_interpolate(x, x_pos, y_pos, phase) ==
    wavetable_lookup(
        x.corner_tables[(IF 2 * x_pos < One /\ 2 * y_pos < One THEN CORNER_SINE
                         ELSE IF 2 * x_pos < One THEN CORNER_TRIANGLE
                         ELSE IF 2 * y_pos < One THEN CORNER_SAW
                         ELSE CORNER_SQUARE) + 1], phase)

cycle2d_new ==
    init_corner_tables(
    [interpolation |-> 0, corner_mode |-> 0, table_size |-> 2, corner_tables |-> <<>>,
     num_custom_tables |-> 0,
     custom_tables |-> [i \in 1..MAX_CUSTOM_TABLES |->
                           [wavetable |-> [j \in 1..WAVETABLE_SIZE |-> 0],
                            x_pos |-> 0, y_pos |-> 0, active |-> 0]],
     phase |-> 0, sr |-> SysSr, sr_inv |-> SrInv(SysSr),
     freq_float |-> Fl(440000), x_float |-> One \div 2, y_float |-> One \div 2,
     phase_offset_float |-> 0,
     freq_has_signal |-> 0, x_has_signal |-> 0, y_has_signal |-> 0,
     phase_has_signal |-> 0])

\* Patchings the host reports in count[] (one flag per inlet).
C2DCounts == {<<0, 0, 0, 0>>, <<1, 0, 1, 1>>}

cycle2d_dsp64(x, count, samplerate) ==
    [x EXCEPT !.sr = samplerate, !.sr_inv = SrInv(samplerate),
              !.freq_has_signal = count[1], !.x_has_signal = count[2],
              !.y_has_signal = count[3], !.phase_has_signal = count[4]]

\* One iteration of the sample loop of cycle2d_perform64.
cycle2d_sample(x, freq_in) ==
    LET freq0 == IF x.freq_has_signal # 0 THEN freq_in ELSE x.freq_float
        freq == CLAMP(freq0, 0, Fl(C2D_MAX_FREQ))
        phase1 == Fl(x.phase + FreqTimesSrInv(freq, x.sr_inv))
    IN  [x EXCEPT !.phase = WrapLoops(phase1)]

\* The sample the same iteration writes, with the positions and the phase it
\* reads the tables at; x is the object before the iteration.
cycle2d_sample_out(x, freq_in, x_in, y_in, phase_offset_in) ==
    LET Out(x_pos, y_pos, read_phase) ==
            [call |-> "perform", x_pos |-> x_pos, y_pos |-> y_pos,
             read_phase |-> read_phase,
             out |-> IF x.interpolation = 1
                     THEN nearest_neighbor_interpolate(x, x_pos, y_pos, read_phase)
                     ELSE bilinear_interpolate(x, x_pos, y_pos, read_phase)]
    IN  Out(CLAMP(IF x.x_has_signal # 0 THEN x_in ELSE x.x_float, 0, One),
            CLAMP(IF x.y_has_signal # 0 THEN y_in ELSE x.y_float, 0, One),
            WrapLoops(Fl(cycle2d_sample(x, freq_in).phase
                         + CLAMP(IF x.phase_has_signal # 0 THEN phase_offset_in
                                 ELSE x.phase_offset_float, 0, One))))

cycle2d_attr_setinterpolation(x, v) == [x EXCEPT !.interpolation = CLAMP(v, 0, 2)]

cycle2d_attr_setcornermode(x, v) == init_corner_tables([x EXCEPT !.corner_mode = CLAMP(v, 0, 2)])

cycle2d_float(x, inlet, f) ==
    CASE inlet = 0 -> [x EXCEPT !.freq_float = CLAMP(f, 0, Fl(C2D_MAX_FREQ))]
      [] inlet = 1 -> [x EXCEPT !.x_float = CLAMP(f, 0, One)]
      [] inlet = 2 -> [x EXCEPT !.y_float = CLAMP(f, 0, One)]
      [] inlet = 3 -> [x EXCEPT !.phase_offset_float = CLAMP(f, 0, One)]
      [] OTHER -> x

cycle2d_bang(x, inlet) == IF inlet = 0 THEN [x EXCEPT !.phase = 0] ELSE x

C2D_Dsp ==
    /\ run = "cycle2d"
    /\ \E count \in C2DCounts, s \in SrVals : c2d' = cycle2d_dsp64(c2d, count, s)
    /\ obs' = ObsInit
    /\ UNCHANGED <<notObs, fltVars, run, elfo, rlfo, cfold, hosc, senv, trig, decVars>>

\* Values at the position and phase offset inlets: below, inside and above
\* the range; a stream is read only where one is patched.
PosIn == {-One, One \div 4, 2 * One}
StreamIn(has_signal) == IF has_signal # 0 THEN PosIn ELSE {0}
FreqStreamIn(has_signal) == IF has_signal # 0 THEN FreqIn ELSE {0}

C2D_Perform ==
    /\ run = "cycle2d"
    /\ \E f \in FreqIn : c2d' = cycle2d_sample(c2d, f)
    /\ obs' = ObsInit
    /\ UNCHANGED <<notObs, fltVars, run, elfo, rlfo, cfold, hosc, senv, trig, decVars>>

\* The same iteration with the sample it writes kept in obs.
C2D_PerformOut ==
    /\ run = "cycle2d"
    /\ \E f \in FreqStreamIn(c2d.freq_has_signal), x_in \in StreamIn(c2d.x_has_signal),
          y_in \in StreamIn(c2d.y_has_signal), p_in \in StreamIn(c2d.phase_has_signal) :
          /\ c2d' = cycle2d_sample(c2d, f)
          /\ obs' = cycle2d_sample_out(c2d, f, x_in, y_in, p_in)
    /\ UNCHANGED <<notObs, fltVars, run, elfo, rlfo, cfold, hosc, senv, trig, decVars>>

C2D_Float ==
    /\ run = "cycle2d"
    /\ \/ \E f \in FreqIn : c2d' = cycle2d_float(c2d, 0, f)
       \/ \E i \in 1..3, f \in UnitIn : c2d' = cycle2d_float(c2d, i, f)
    /\ obs' = ObsInit
    /\ UNCHANGED <<notObs, fltVars, run, elfo, rlfo, cfold, hosc, senv, trig, decVars>>

\* Floats at the position inlets.
C2D_FloatPosition ==
    /\ run = "cycle2d"
    /\ \E i \in 1..2, f \in PosIn : c2d' = cycle2d_float(c2d, i, f)
    /\ obs' = ObsInit
    /\ UNCHANGED <<notObs, fltVars, run, elfo, rlfo, cfold, hosc, senv, trig, decVars>>

AttrLongIn == {-1, 1, 5}

C2D_AttrInterpolation ==
    /\ run = "cycle2d"
    /\ \E v \in AttrLongIn : c2d' = cycle2d_attr_setinterpolation(c2d, v)
    /\ obs' = ObsInit
    /\ UNCHANGED <<notObs, fltVars, run, elfo, rlfo, cfold, hosc, senv, trig, decVars>>

C2D_AttrCornerMode ==
    /\ run = "cycle2d"
    /\ \E v \in AttrLongIn : c2d' = cycle2d_attr_setcornermode(c2d, v)
    /\ obs' = ObsInit
    /\ UNCHANGED <<notObs, fltVars, run, elfo, rlfo, cfold, hosc, senv, trig, decVars>>

C2D_Bang ==
    /\ run = "cycle2d"
    /\ \E i \in 0..1 : c2d' = cycle2d_bang(c2d, i)
    /\ obs' = ObsInit
    /\ UNCHANGED <<notObs, fltVars, run, elfo, rlfo, cfold, hosc, senv, trig, decVars>>

\* The % of C: the remainder has the sign of the dividend.
CRem(a, b) == IF a >= 0 THEN a % b ELSE -((-a) % b)

\* The buffer~ objects of the patch by name: whether buffer_ref_getobject
\* finds one, whether buffer_locksamples returns its samples, and its frames.
BufferOf(name) ==
    CASE name = "wave" -> [found |-> 1, lockable |-> 1, frames |-> <<1, 2>>]
      [] name = "empty" -> [found |-> 1, lockable |-> 1, frames |-> <<>>]
      [] name = "locked" -> [found |-> 1, lockable |-> 0, frames |-> <<1, 2>>]
      [] OTHER -> [found |-> 0, lockable |-> 0, frames |-> <<>>]

\* The buffer message without the test for a free slot.
cycle2d_buffer_anyslot(x, argv, stray) ==
    IF Len(argv) < 3 THEN x
    ELSE LET buffer == BufferOf(argv[1])
             x_pos == CLAMP(argv[2], 0, One)
             y_pos == CLAMP(argv[3], 0, One)
             offset == IF Len(argv) >= 4 THEN argv[4] ELSE 0
             buffer_frames == Len(buffer.frames)
             read_index(i) == CRem(offset + i, buffer_frames)
             sample(i) == IF read_index(i) < 0 THEN stray
                          ELSE buffer.frames[read_index(i) + 1]
         IN  IF buffer.found = 0 \/ buffer.lockable = 0 \/ buffer_frames = 0 THEN x
             ELSE [x EXCEPT !.custom_tables[x.num_custom_tables + 1] =
                                [wavetable |-> [j \in 1..WAVETABLE_SIZE |-> sample(j - 1)],
                                 x_pos |-> x_pos, y_pos |-> y_pos, active |-> 1],
                            !.num_custom_tables = @ + 1]

\* buffer <name> <x> <y> [offset].  stray is what buffer_samples[read_index]
\* holds for a negative read_index, which a negative offset produces: a read
\* before the start of the buffer.
cycle2d_buffer(x, argv, stray) ==
    IF Len(argv) < 3 THEN x
    ELSE IF x.num_custom_tables >= MAX_CUSTOM_TABLES THEN x
    ELSE LET buffer == BufferOf(argv[1])
             x_pos == CLAMP(argv[2], 0, One)
             y_pos == CLAMP(argv[3], 0, One)
             offset == IF Len(argv) >= 4 THEN argv[4] ELSE 0
             buffer_frames == Len(buffer.frames)
             read_index(i) == CRem(offset + i, buffer_frames)
             sample(i) == IF read_index(i) < 0 THEN stray
                          ELSE buffer.frames[read_index(i) + 1]
         IN  IF buffer.found = 0 \/ buffer.lockable = 0 \/ buffer_frames = 0 THEN x
             ELSE [x EXCEPT !.custom_tables[x.num_custom_tables + 1] =
                                [wavetable |-> [j \in 1..WAVETABLE_SIZE |-> sample(j - 1)],
                                 x_pos |-> x_pos, y_pos |-> y_pos, active |-> 1],
                            !.num_custom_tables = @ + 1]

\* Argument lists of the buffer message and the values a stray read returns.
BufferArgsIn ==
    {<<"wave", 2 * One, -One, -1>>, <<"wave", 2 * One, -One>>, <<"wave", One>>, <<>>,
     <<"none", 0, 0, 0>>, <<"locked", 0, 0>>, <<"empty", One, One, 3>>}
StrayIn == {0, 1}

C2D_Buffer ==
    /\ run = "cycle2d"
    /\ \E argv \in BufferArgsIn, stray \in StrayIn : c2d' = cycle2d_buffer(c2d, argv, stray)
    /\ obs' = ObsInit
    /\ UNCHANGED <<notObs, fltVars, run, elfo, rlfo, cfold, hosc, senv, trig, decVars>>


(***************************************************************************)
(* easelfo~                                                                *)
(***************************************************************************)
ELFO_MAX_FREQ == 20000000
ELFO_MAX_EASING == 11

easelfo_new ==
    [phase |-> 0, sr |-> SysSr, sr_inv |-> SrInv(SysSr),
     freq_float |-> Fl(1000), easing_float |-> 0, phase_offset_float |-> 0,
     mirror_mode |-> 0, mirror_mode_attr |-> 0, easing_curve |-> 0,
     phase_lock |-> 0, smoothing |-> 0, prev_freq |-> Fl(1000), prev_easing |-> 0,
     freq_has_signal |-> 0, shape_has_signal |-> 0, phase_has_signal |-> 0]

ELFOCounts == {<<0, 0, 0>>, <<1, 0, 1>>}

easelfo_dsp64(x, count, samplerate) ==
    [x EXCEPT !.sr = samplerate, !.sr_inv = SrInv(samplerate),
              !.freq_has_signal = count[1], !.shape_has_signal = count[2],
              !.phase_has_signal = count[3]]

\* One iteration of the sample loop of easelfo_perform64: parameter
\* resolution, smoothing, mirror halving, phase update and wrap.
\* The frequency after stream selection and smoothing, before the mirror
\* mode halves it.
easelfo_sample_freq(x, freq_in) ==
    LET freq0 == IF x.freq_has_signal # 0 THEN freq_in ELSE x.freq_float
        smooth_factor == Fl(DivNearest(x.smoothing, 100))
    IN  IF x.smoothing > 0
        THEN Fl(x.prev_freq + FMulOne(smooth_factor, Fl(freq0 - x.prev_freq)))
        ELSE freq0

easelfo_sample(x, freq_in, easing_in) ==
    LET eas0 == IF x.shape_has_signal # 0 THEN easing_in ELSE x.easing_curve * One
        smooth_factor == Fl(DivNearest(x.smoothing, 100))
        freq1 == easelfo_sample_freq(x, freq_in)
        eas1 == IF x.smoothing > 0
                THEN Fl(x.prev_easing + FMulOne(smooth_factor, Fl(eas0 - x.prev_easing)))
                ELSE eas0
        freq2 == IF x.mirror_mode_attr = 1 THEN Fl(DivNearest(freq1, 2)) ELSE freq1
        phase1 == Fl(x.phase + FreqTimesSrInv(freq2, x.sr_inv))
    IN  [x EXCEPT !.phase = WrapLoops(phase1),
                  !.prev_freq = IF x.smoothing > 0 THEN freq1 ELSE @,
                  !.prev_easing = IF x.smoothing > 0 THEN eas1 ELSE @]

\* The easing function the same iteration selects and the phase it passes
\* to it, before and after the phase lock; x is the object before the
\* iteration.
easelfo_sample_out(x, freq_in, easing_in, phase_offset_in) ==
    LET Locked(easing, final_phase) ==
            [call |-> "perform", easing |-> easing, final_phase |-> final_phase,
             eased_phase |-> IF x.phase_lock # 0
                             THEN ((final_phase * 16) \div One) * (One \div 16)
                             ELSE final_phase]
        Mirrored(easing, offset_phase) ==
            Locked(easing,
                   CASE x.mirror_mode_attr = 1 ->
                            IF 2 * offset_phase <= One THEN Fl(offset_phase * 2)
                            ELSE Fl(Fl(One - offset_phase) * 2)
                     [] x.mirror_mode_attr = 2 -> Fl(One - offset_phase)
                     [] OTHER -> offset_phase)
        Stepped(x1) ==
            Mirrored(CLAMP(IF x.smoothing > 0 THEN x1.prev_easing
                           ELSE IF x.shape_has_signal # 0 THEN easing_in
                           ELSE x.easing_curve * One, 0, ELFO_MAX_EASING * One) \div One,
                     WrapLoops(Fl(x1.phase + (IF x.phase_has_signal # 0 THEN phase_offset_in
                                              ELSE x.phase_offset_float))))
    IN  Stepped(easelfo_sample(x, freq_in, easing_in))

easelfo_attr_setmirrormode(x, v) ==
    [x EXCEPT !.mirror_mode_attr = CLAMP(v, 0, 2), !.mirror_mode = CLAMP(v, 0, 2)]

easelfo_attr_seteasingcurve(x, v) ==
    [x EXCEPT !.easing_curve = CLAMP(v, 0, ELFO_MAX_EASING),
              !.easing_float = CLAMP(v, 0, ELFO_MAX_EASING) * One]

easelfo_attr_setphaselock(x, v) == [x EXCEPT !.phase_lock = IF v # 0 THEN 1 ELSE 0]

easelfo_float(x, inlet, f) ==
    CASE inlet = 0 -> [x EXCEPT !.freq_float = CLAMP(f, 0, Fl(ELFO_MAX_FREQ))]
      [] inlet = 1 -> [x EXCEPT !.easing_float = CLAMP(f, 0, ELFO_MAX_EASING * One)]
      [] inlet = 2 -> [x EXCEPT !.phase_offset_float = WrapLoops(f)]
      [] OTHER -> x

easelfo_bang(x, inlet) == IF inlet = 0 THEN [x EXCEPT !.phase = 0] ELSE x

easelfo_mirror(x, n) ==
    [x EXCEPT !.mirror_mode_attr = CLAMP(n, 0, 2), !.mirror_mode = CLAMP(n, 0, 2)]

easelfo_attr_setsmoothing(x, v) == [x EXCEPT !.smoothing = CLAMP(v, 0, One)]

ELFO_Dsp ==
    /\ run = "easelfo"
    /\ \E count \in ELFOCounts, s \in SrVals : elfo' = easelfo_dsp64(elfo, count, s)
    /\ obs' = ObsInit
    /\ UNCHANGED <<notObs, fltVars, run, c2d, rlfo, cfold, hosc, senv, trig, decVars>>

ELFO_Perform ==
    /\ run = "easelfo"
    /\ \E f \in FreqIn : elfo' = easelfo_sample(elfo, f, 0)
    /\ obs' = ObsInit
    /\ UNCHANGED <<notObs, fltVars, run, c2d, rlfo, cfold, hosc, senv, trig, decVars>>

\* Streams at the easing and phase offset inlets, read only where one is
\* patched; the smallest negative double stands for a tiny negative offset.
ElfoEasingIn == {3 * One}
ElfoPhaseIn == {-1, One \div 16, One \div 2}

\* The same iteration with what it selects and passes on kept in obs.
ELFO_PerformOut ==
    /\ run = "easelfo"
    /\ \E f \in FreqStreamIn(elfo.freq_has_signal),
          e \in (IF elfo.shape_has_signal # 0 THEN ElfoEasingIn ELSE {0}),
          p \in (IF elfo.phase_has_signal # 0 THEN ElfoPhaseIn ELSE {0}) :
          /\ elfo' = easelfo_sample(elfo, f, e)
          /\ obs' = easelfo_sample_out(elfo, f, e, p)
    /\ UNCHANGED <<notObs, fltVars, run, c2d, rlfo, cfold, hosc, senv, trig, decVars>>

\* Floats at the easing inlet.
ELFO_FloatEasing ==
    /\ run = "easelfo"
    /\ \E f \in {5 * (One \div 2), 20 * One} : elfo' = easelfo_float(elfo, 1, f)
    /\ obs' = ObsInit
    /\ UNCHANGED <<notObs, fltVars, run, c2d, rlfo, cfold, hosc, senv, trig, decVars>>

ELFO_AttrMirrorMode ==
    /\ run = "easelfo"
    /\ \E v \in AttrLongIn : elfo' = easelfo_attr_setmirrormode(elfo, v)
    /\ obs' = ObsInit
    /\ UNCHANGED <<notObs, fltVars, run, c2d, rlfo, cfold, hosc, senv, trig, decVars>>

ELFO_AttrEasingCurve ==
    /\ run = "easelfo"
    /\ \E v \in {-1, 3, 20} : elfo' = easelfo_attr_seteasingcurve(elfo, v)
    /\ obs' = ObsInit
    /\ UNCHANGED <<notObs, fltVars, run, c2d, rlfo, cfold, hosc, senv, trig, decVars>>

ELFO_AttrPhaseLock ==
    /\ run = "easelfo"
    /\ \E v \in {0, 5} : elfo' = easelfo_attr_setphaselock(elfo, v)
    /\ obs' = ObsInit
    /\ UNCHANGED <<notObs, fltVars, run, c2d, rlfo, cfold, hosc, senv, trig, decVars>>

ELFO_Float ==
    /\ run = "easelfo"
    /\ \/ \E f \in FreqIn : elfo' = easelfo_float(elfo, 0, f)
       \/ elfo' = easelfo_float(elfo, 1, 20 * One)
       \/ \E f \in UnitIn : elfo' = easelfo_float(elfo, 2, f)
    /\ obs' = ObsInit
    /\ UNCHANGED <<notObs, fltVars, run, c2d, rlfo, cfold, hosc, senv, trig, decVars>>

ELFO_Bang ==
    /\ run = "easelfo"
    /\ \E i \in 0..1 : elfo' = easelfo_bang(elfo, i)
    /\ obs' = ObsInit
    /\ UNCHANGED <<notObs, fltVars, run, c2d, rlfo, cfold, hosc, senv, trig, decVars>>

ELFO_Mirror ==
    /\ run = "easelfo"
    /\ \E n \in {0, 1, 5} : elfo' = easelfo_mirror(elfo, n)
    /\ obs' = ObsInit
    /\ UNCHANGED <<notObs, fltVars, run, c2d, rlfo, cfold, hosc, senv, trig, decVars>>

(***************************************************************************)
(* ramplfo~  (phase part of the sample loop; the jitter generator draws    *)
(* from rand() and touches no field modelled here)                         *)
(***************************************************************************)
ramplfo_new ==
    [phase |-> 0, sr |-> SysSr, sr_inv |-> SrInv(SysSr),
     freq_float |-> Fl(1000), shape_float |-> One \div 2, rise_curve_float |-> 0,
     fall_curve_float |-> 0, jitter_float |-> 0, phase_offset_float |-> 0,
     freq_has_signal |-> 0, shape_has_signal |-> 0, rise_has_signal |-> 0,
     fall_has_signal |-> 0, jitter_has_signal |-> 0, phase_has_signal |-> 0]

RLFOCounts == {<<0, 0, 0, 0, 0, 0>>, <<1, 0, 1, 0, 1, 1>>}

ramplfo_dsp64(x, count, samplerate) ==
    [x EXCEPT !.sr = samplerate, !.sr_inv = SrInv(samplerate),
              !.freq_has_signal = count[1], !.shape_has_signal = count[2],
              !.rise_has_signal = count[3], !.fall_has_signal = count[4],
              !.jitter_has_signal = count[5], !.phase_has_signal = count[6]]

\* The frequency that advances the phase for one sample.
ramplfo_sample_freq(x, freq_in) ==
    LET freq0 == IF x.freq_has_signal # 0 THEN freq_in ELSE x.freq_float
    IN  IF freq0 <= 0 THEN x.freq_float ELSE freq0

ramplfo_sample(x, freq_in) ==
    LET freq == ramplfo_sample_freq(x, freq_in)
        phase1 == Fl(x.phase + FreqTimesSrInv(freq, x.sr_inv))
    IN  [x EXCEPT !.phase = WrapLoops(phase1)]

ramplfo_float(x, inlet, f) ==
    CASE inlet = 0 -> IF f > 0 THEN [x EXCEPT !.freq_float = f] ELSE x
      [] inlet = 1 -> [x EXCEPT !.shape_float = Fmin(Fmax(f, 0), One)]
      [] inlet = 2 -> [x EXCEPT !.rise_curve_float = Fmin(Fmax(f, -3 * One), 3 * One)]
      [] inlet = 3 -> [x EXCEPT !.fall_curve_float = Fmin(Fmax(f, -3 * One), 3 * One)]
      [] inlet = 4 -> [x EXCEPT !.jitter_float = Fmin(Fmax(f, 0), One)]
      [] inlet = 5 -> [x EXCEPT !.phase_offset_float = Fmin(Fmax(f, 0), One)]
      [] OTHER -> x

ramplfo_bang(x, inlet) == IF inlet = 0 THEN [x EXCEPT !.phase = 0] ELSE x

RLFO_Dsp ==
    /\ run = "ramplfo"
    /\ \E count \in RLFOCounts, s \in SrVals : rlfo' = ramplfo_dsp64(rlfo, count, s)
    /\ UNCHANGED <<insVars, fltVars, run, c2d, elfo, cfold, hosc, senv, trig, decVars>>

RLFO_Perform ==
    /\ run = "ramplfo"
    /\ \E f \in FreqIn : rlfo' = ramplfo_sample(rlfo, f)
    /\ UNCHANGED <<insVars, fltVars, run, c2d, elfo, cfold, hosc, senv, trig, decVars>>

RLFO_Float ==
    /\ run = "ramplfo"
    /\ \/ \E f \in FreqIn : rlfo' = ramplfo_float(rlfo, 0, f)
       \/ \E i \in {1, 5}, f \in UnitIn : rlfo' = ramplfo_float(rlfo, i, f)
       \/ \E i \in 2..4 : rlfo' = ramplfo_float(rlfo, i, 4 * One)
    /\ UNCHANGED <<insVars, fltVars, run, c2d, elfo, cfold, hosc, senv, trig, decVars>>

RLFO_Bang ==
    /\ run = "ramplfo"
    /\ \E i \in 0..1 : rlfo' = ramplfo_bang(rlfo, i)
    /\ UNCHANGED <<insVars, fltVars, run, c2d, elfo, cfold, hosc, senv, trig, decVars>>

(***************************************************************************)
(* cycle.fold~  (phase accumulator and held scalars)                       *)
(***************************************************************************)
MIN_FREQUENCY == 1
MAX_FREQUENCY == 20000000

cyclefold_new ==
    [phase |-> 0, sr |-> 44100, sr_inv |-> SrInv(44100),
     frequency_float |-> Fl(440000), fold_amount_float |-> 0, warp_amount_float |-> 0,
     frequency_has_signal |-> 0, fold_has_signal |-> 0, warp_has_signal |-> 0,
     folding_algorithm |-> 0, antialiasing_enabled |-> 1]

CFCounts == {<<0, 0, 0>>, <<1, 0, 1>>}

cyclefold_dsp64(x, count, samplerate) ==
    [x EXCEPT !.sr = samplerate, !.sr_inv = SrInv(samplerate),
              !.frequency_has_signal = count[1], !.fold_has_signal = count[2],
              !.warp_has_signal = count[3]]

\* if (phase >= 1.0) phase -= 1.0; if (phase < 0.0) phase += 1.0;
\* if (fabs(phase) < DENORMAL_THRESHOLD) phase = 0.0;   (the threshold, 1e-15,
\* lies below the smallest magnitude of the format: nothing is flushed)
cyclefold_wrap(p) ==
    LET p1 == IF p >= One THEN Fl(p - One) ELSE p
    IN  IF p1 < 0 THEN Fl(p1 + One) ELSE p1

cyclefold_sample(x, freq_in) ==
    LET f0 == IF x.frequency_has_signal # 0 THEN freq_in ELSE x.frequency_float
        frequency == Fmax(MIN_FREQUENCY, Fmin(Fl(MAX_FREQUENCY), f0))
        phase1 == Fl(x.phase + FreqTimesSrInv(frequency, x.sr_inv))
    IN  [x EXCEPT !.phase = cyclefold_wrap(phase1)]

cyclefold_float(x, inlet, f) ==
    CASE inlet = 0 -> [x EXCEPT !.frequency_float = Fmax(MIN_FREQUENCY, Fmin(Fl(MAX_FREQUENCY), f))]
      [] inlet = 1 -> [x EXCEPT !.fold_amount_float = Fmax(0, Fmin(One, f))]
      [] inlet = 2 -> [x EXCEPT !.warp_amount_float = Fmax(-One, Fmin(One, f))]
      [] OTHER -> x

cyclefold_bang(x) == [x EXCEPT !.phase = 0]

CF_Dsp ==
    /\ run = "cyclefold"
    /\ \E count \in CFCounts, s \in SrVals : cfold' = cyclefold_dsp64(cfold, count, s)
    /\ UNCHANGED <<insVars, fltVars, run, c2d, elfo, rlfo, hosc, senv, trig, decVars>>

CF_Perform ==
    /\ run = "cyclefold"
    /\ \E f \in FreqIn : cfold' = cyclefold_sample(cfold, f)
    /\ UNCHANGED <<insVars, fltVars, run, c2d, elfo, rlfo, hosc, senv, trig, decVars>>

CF_Float ==
    /\ run = "cyclefold"
    /\ \/ \E f \in FreqIn : cfold' = cyclefold_float(cfold, 0, f)
       \/ \E i \in 1..2, f \in UnitIn : cfold' = cyclefold_float(cfold, i, f)
    /\ UNCHANGED <<insVars, fltVars, run, c2d, elfo, rlfo, hosc, senv, trig, decVars>>

CF_Bang ==
    /\ run = "cyclefold"
    /\ cfold' = cyclefold_bang(cfold)
    /\ UNCHANGED <<insVars, fltVars, run, c2d, elfo, rlfo, hosc, senv, trig, decVars>>

(***************************************************************************)
(* harmosc~  (detune stays at its default 0.0, so every harmonic runs at   *)
(* its integer multiple; amplitudes are fixed point, AMP_ONE units per 1.0)*)
(***************************************************************************)
HOSC_MIN_FREQ == 100
HOSC_MAX_FREQ == 20000000
AMP_ONE == 1000
\* Number of harmonics given to the constructor (1..64 in the source).
NumHarmonics == 3

RECURSIVE IPow(_, _)
IPow(b, e) == IF e <= 0 THEN 1 ELSE b * IPow(b, e - 1)

\* pow(h, -(strength * 3.0)), strength in phase units: the exponent is taken
\* to the nearest half, h^(-k/2) = 1 / sqrt(h^k).
HarmPow(h, strength) ==
    LET k == DivNearest(6 * strength, One)
    IN  DivNearest(AMP_ONE * 100, ISqrtB(IPow(h, k) * 10000, 0, 3000))


\* amplitudes[i] /= total, when total > 0
harmosc_normalize(amps) ==
    LET total == SeqSum(amps)
    IN  IF total > 0 THEN [i \in 1..Len(amps) |-> DivNearest(amps[i] * AMP_ONE, total)]
        ELSE amps

\* harmosc_calculate_amplitudes leaving custom amplitudes as they were given.
harmosc_calculate_amplitudes_asgiven(x) ==
    LET n == x.num_harmonics
        raw(i) == IF x.falloff = -One THEN (IF i = 1 THEN AMP_ONE ELSE 0)
                  ELSE IF x.falloff = One THEN (IF i = n THEN AMP_ONE ELSE 0)
                  ELSE IF x.falloff = 0 THEN AMP_ONE
                  ELSE IF x.falloff < 0 THEN HarmPow(i, -x.falloff)
                  ELSE HarmPow(n - i + 1, x.falloff)
    IN  IF x.custom_amps # 0
        THEN [x EXCEPT !.amplitudes = [i \in 1..n |-> x.amplitudes[i] * x.harmonic_states[i]]]
        ELSE [x EXCEPT !.amplitudes =
                  harmosc_normalize([i \in 1..n |-> raw(i) * x.harmonic_states[i]])]

harmosc_calculate_amplitudes(x) ==
    LET n == x.num_harmonics
        raw(i) == IF x.falloff = -One THEN (IF i = 1 THEN AMP_ONE ELSE 0)
                  ELSE IF x.falloff = One THEN (IF i = n THEN AMP_ONE ELSE 0)
                  ELSE IF x.falloff = 0 THEN AMP_ONE
                  ELSE IF x.falloff < 0 THEN HarmPow(i, -x.falloff)
                  ELSE HarmPow(n - i + 1, x.falloff)
        gated == IF x.custom_amps # 0
                 THEN [i \in 1..n |-> x.amplitudes[i] * x.harmonic_states[i]]
                 ELSE [i \in 1..n |-> raw(i) * x.harmonic_states[i]]
    IN  [x EXCEPT !.amplitudes = harmosc_normalize(gated)]

harmosc_update_phase_increments(x) ==
    LET base_increment == FreqTimesSrInv(x.freq_float, x.sr_recip)
    IN  [x EXCEPT !.phase_increments = [i \in 1..x.num_harmonics |-> Fl(base_increment * i)]]

\* The constructor given the harmonic count num (its second argument), every
\* sysmem_newptr call succeeding; sine_table is 1 for an allocated table and 0
\* for a NULL pointer.
harmosc_new_at(num) ==
    harmosc_calculate_amplitudes(harmosc_update_phase_increments(
        [num_harmonics |-> CLAMP(num, 1, 64), freq_float |-> Fl(440000), falloff |-> 0,
         falloff_float |-> 0, freq_has_signal |-> 0, falloff_has_signal |-> 0,
         phase |-> 0, sr |-> SysSr, sr_recip |-> SrInv(SysSr),
         harmonic_mode |-> 0, falloff_curve |-> 0, amplitude_control |-> 0,
         all_on |-> 1, odd_only |-> 0, even_only |-> 0, custom_amps |-> 0,
         amplitudes |-> [i \in 1..CLAMP(num, 1, 64) |-> 0],
         harmonic_states |-> [i \in 1..CLAMP(num, 1, 64) |-> 1],
         phase_increments |-> [i \in 1..CLAMP(num, 1, 64) |-> 0],
         sine_table |-> 1]))

harmosc_new == harmosc_new_at(NumHarmonics)

HOSCCounts == {<<0, 0>>, <<1, 1>>}

harmosc_dsp64(x, count, samplerate) ==
    [x EXCEPT !.sr = samplerate, !.sr_recip = SrInv(samplerate),
              !.freq_has_signal = count[1], !.falloff_has_signal = count[2]]

\* One iteration of the sample loop of harmosc_perform64.
\* The fundamental frequency of one sample.
harmosc_sample_freq(x, freq_in) ==
    IF x.freq_has_signal # 0 THEN freq_in ELSE x.freq_float

harmosc_sample(x, freq_in, falloff_in) ==
    LET current_freq == harmosc_sample_freq(x, freq_in)
        f0 == IF x.falloff_has_signal # 0 THEN falloff_in ELSE x.falloff_float
        current_falloff == CLAMP(f0, -One, One)
        x1 == IF current_falloff # x.falloff
              THEN LET y == [x EXCEPT !.falloff = current_falloff]
                   IN  IF y.custom_amps = 0 THEN harmosc_calculate_amplitudes(y) ELSE y
              ELSE x
        phase1 == Fl(x.phase + FreqTimesSrInv(current_freq, x.sr_recip))
    IN  [x1 EXCEPT !.phase = IF phase1 >= One THEN Fl(phase1 - One) ELSE phase1]

harmosc_float(x, inlet, f) ==
    CASE inlet = 0 ->
           harmosc_update_phase_increments(
               [x EXCEPT !.freq_float = CLAMP(f, HOSC_MIN_FREQ, Fl(HOSC_MAX_FREQ))])
      [] inlet = 1 ->
           harmosc_calculate_amplitudes(
               [x EXCEPT !.falloff_float = CLAMP(f, -One, One),
                         !.falloff = CLAMP(f, -One, One),
                         !.custom_amps = 0])
      [] OTHER -> x

\* amps <list>: the first MIN(argc, num_harmonics) values, the rest 0.
harmosc_amps(x, argv) ==
    IF Len(argv) = 0 THEN x
    ELSE LET n == x.num_harmonics
             val(i) == IF i <= Len(argv) THEN CLAMP(argv[i], 0, AMP_ONE) ELSE 0
         IN  harmosc_calculate_amplitudes(
                 [x EXCEPT !.custom_amps = 1, !.all_on = 0, !.odd_only = 0,
                           !.even_only = 0,
                           !.amplitudes = [i \in 1..n |-> val(i)],
                           !.harmonic_states = [i \in 1..n |-> IF val(i) > 0 THEN 1 ELSE 0]])

harmosc_falloff(x, f) ==
    harmosc_calculate_amplitudes([x EXCEPT !.falloff = CLAMP(f, -One, One), !.custom_amps = 0])

harmosc_all(x) ==
    harmosc_calculate_amplitudes(
        [x EXCEPT !.all_on = 1, !.odd_only = 0, !.even_only = 0,
                  !.harmonic_states = [i \in 1..x.num_harmonics |-> 1]])

\* harmonic_states[i] = (i == 0) ? 1 : ((i + 1) % 2 == 1), i counted from 0
harmosc_odd(x) ==
    harmosc_calculate_amplitudes(
        [x EXCEPT !.all_on = 0, !.odd_only = 1, !.even_only = 0,
                  !.harmonic_states = [i \in 1..x.num_harmonics |->
                                           IF i = 1 \/ i % 2 = 1 THEN 1 ELSE 0]])

\* The even message that switches the fundamental off with the other odd
\* harmonics.
harmosc_even_nofundamental(x) ==
    harmosc_calculate_amplitudes(
        [x EXCEPT !.all_on = 0, !.odd_only = 0, !.even_only = 1,
                  !.harmonic_states = [i \in 1..x.num_harmonics |->
                                           IF i % 2 = 0 THEN 1 ELSE 0]])

harmosc_even(x) ==
    harmosc_calculate_amplitudes(
        [x EXCEPT !.all_on = 0, !.odd_only = 0, !.even_only = 1,
                  !.harmonic_states = [i \in 1..x.num_harmonics |->
                                           IF i = 1 \/ i % 2 = 0 THEN 1 ELSE 0]])

harmosc_attr_setharmonicmode(x, v) ==
    LET y == [x EXCEPT !.harmonic_mode = CLAMP(v, 0, 2)]
    IN  CASE y.harmonic_mode = 0 -> harmosc_all(y)
          [] y.harmonic_mode = 1 -> harmosc_odd(y)
          [] OTHER -> harmosc_even(y)

harmosc_attr_setfalloffcurve(x, f) ==
    harmosc_calculate_amplitudes(
        [x EXCEPT !.falloff_curve = CLAMP(f, -One, One), !.falloff = CLAMP(f, -One, One),
                  !.falloff_float = CLAMP(f, -One, One), !.custom_amps = 0])

harmosc_attr_setamplitudecontrol(x, v) ==
    LET y == [x EXCEPT !.amplitude_control = CLAMP(v, 0, 1), !.custom_amps = CLAMP(v, 0, 1)]
    IN  IF y.custom_amps = 0 THEN harmosc_calculate_amplitudes(y) ELSE y

\* Frequencies (mHz) and falloffs arriving at harmosc~.
HoscFreqIn == {Fl(-1000), Fl(20000000)}
FalloffIn == {-2 * One, One \div 2}
AmpsIn ==
    {<<AMP_ONE, AMP_ONE \div 2>>, <<0>>, <<0, AMP_ONE>>,
     <<AMP_ONE \div 4, 2 * AMP_ONE, AMP_ONE \div 2, AMP_ONE, 1>>}

HOSC_Dsp ==
    /\ run = "harmosc"
    /\ \E count \in HOSCCounts, s \in SrVals : hosc' = harmosc_dsp64(hosc, count, s)
    /\ UNCHANGED <<insVars, fltVars, run, c2d, elfo, rlfo, cfold, senv, trig, decVars>>

HOSC_Perform ==
    /\ run = "harmosc"
    /\ \E f \in HoscFreqIn, fo \in FalloffIn : hosc' = harmosc_sample(hosc, f, fo)
    /\ UNCHANGED <<insVars, fltVars, run, c2d, elfo, rlfo, cfold, senv, trig, decVars>>

HOSC_Float ==
    /\ run = "harmosc"
    /\ \/ \E f \in HoscFreqIn : hosc' = harmosc_float(hosc, 0, f)
       \/ \E f \in FalloffIn : hosc' = harmosc_float(hosc, 1, f)
    /\ UNCHANGED <<insVars, fltVars, run, c2d, elfo, rlfo, cfold, senv, trig, decVars>>

HOSC_Amps ==
    /\ run = "harmosc"
    /\ \E a \in AmpsIn : hosc' = harmosc_amps(hosc, a)
    /\ UNCHANGED <<insVars, fltVars, run, c2d, elfo, rlfo, cfold, senv, trig, decVars>>

\* Largest harmonic count given to the constructor of the harmonic mix.
MaxHarmCount == 5
HarmFalloffIn == {-One, -(One \div 2), 0, One \div 2, 2 * One}

notHosc == <<insVars, fltVars, run, c2d, elfo, rlfo, cfold, senv, trig, decVars>>

HOSC_Falloff ==
    /\ run = "harmosc"
    /\ \E f \in HarmFalloffIn : hosc' = harmosc_falloff(hosc, f)
    /\ UNCHANGED notHosc

HOSC_All ==
    /\ run = "harmosc"
    /\ hosc' = harmosc_all(hosc)
    /\ UNCHANGED notHosc

HOSC_Odd ==
    /\ run = "harmosc"
    /\ hosc' = harmosc_odd(hosc)
    /\ UNCHANGED notHosc

HOSC_Even ==
    /\ run = "harmosc"
    /\ hosc' = harmosc_even(hosc)
    /\ UNCHANGED notHosc

HOSC_AttrHarmonicMode ==
    /\ run = "harmosc"
    /\ \E v \in -1..3 : hosc' = harmosc_attr_setharmonicmode(hosc, v)
    /\ UNCHANGED notHosc

HOSC_AttrFalloffCurve ==
    /\ run = "harmosc"
    /\ \E f \in HarmFalloffIn : hosc' = harmosc_attr_setfalloffcurve(hosc, f)
    /\ UNCHANGED notHosc

HOSC_AttrAmplitudeControl ==
    /\ run = "harmosc"
    /\ \E v \in -1..2 : hosc' = harmosc_attr_setamplitudecontrol(hosc, v)
    /\ UNCHANGED notHosc

(***************************************************************************)
(* slewenv~                                                                *)
(* Fixed point: the integrator counts ENV_ONE units per 1.0; times,        *)
(* linearity, loop and trigger values count MILLI units per 1.0.           *)
(* trig is a history variable: whether the last step ran                   *)
(* trigger_integrator (0 no, 1 on an edge of the trigger input, 2 from the *)
(* looping attribute).                                                     *)
(***************************************************************************)
ENV_ONE == 20
EXP_SCALE == 10000

\* exp(-i) for integer i >= 0, in EXP_SCALE units.
ExpNegInt(i) ==
    CASE i = 0 -> 10000 [] i = 1 -> 3679 [] i = 2 -> 1353
      [] i = 3 -> 498 [] i = 4 -> 183 [] i = 5 -> 67 [] i = 6 -> 25
      [] i = 7 -> 9 [] i = 8 -> 3 [] i = 9 -> 1 [] OTHER -> 0

\* exp(-f), 0 <= f < 1 (EXP_SCALE units): the power series to the 6th term.
RECURSIVE ExpSeries(_, _)
ExpSeries(f, k) ==
    IF k > 6 THEN EXP_SCALE
    ELSE EXP_SCALE - (f * ExpSeries(f, k + 1)) \div (k * EXP_SCALE)

\* exp(-a), a >= 0 in EXP_SCALE units.
ExpNeg(a) ==
    DivNearest(ExpNegInt(a \div EXP_SCALE) * ExpSeries(a % EXP_SCALE, 1), EXP_SCALE)

SENV_MIN_TIME == 1
SENV_MAX_AMP == 10000

slewenv_new ==
    [rise_time |-> MILLI \div 10, rise_float |-> MILLI \div 10,
     fall_time |-> MILLI \div 10, fall_float |-> MILLI \div 10,
     linearity |-> 0, linearity_float |-> 0, loop_enabled |-> 0, loop_float |-> 0,
     current_output |-> 0, state |-> 0, trigger_amplitude |-> MILLI, prev_trigger |-> 0,
     trigger_has_signal |-> 0, loop_has_signal |-> 0, rise_has_signal |-> 0,
     fall_has_signal |-> 0, linearity_has_signal |-> 0,
     sample_rate |-> 44100, dsp_added |-> 0]

trigger_integrator(x, amplitude) ==
    [x EXCEPT !.state = 1, !.trigger_amplitude = CLAMP(amplitude, 0, SENV_MAX_AMP)]

\* A level-sensitive trigger: fires on every positive value.
slewenv_edge_level(x, trigger) ==
    IF trigger > 0
    THEN [trigger_integrator(x, trigger) EXCEPT !.prev_trigger = trigger]
    ELSE [x EXCEPT !.prev_trigger = trigger]

\* if (trigger > 0.0 && x->prev_trigger <= 0.0) trigger_integrator(x, trigger);
\* x->prev_trigger = trigger;
slewenv_edge(x, trigger) ==
    IF trigger > 0 /\ x.prev_trigger <= 0
    THEN [trigger_integrator(x, trigger) EXCEPT !.prev_trigger = trigger]
    ELSE [x EXCEPT !.prev_trigger = trigger]

\* 1.0 / (seconds * sample_rate) with seconds = time * 10.0, at least 0.01
slewenv_rate(time, sample_rate) ==
    LET ms0 == time * 10
        ms == IF ms0 < 10 THEN 10 ELSE ms0
    IN  DivNearest(ENV_ONE * MILLI, ms * sample_rate)

\* A logarithmic shape without its 0.1 floor: no step at progress 0.
slewenv_step_nofloor(rate, linearity, cur, dir) ==
    IF linearity > 1
    THEN LET progress == IF dir = 1 THEN cur ELSE ENV_ONE - cur
         IN  DivNearest(rate * DivNearest(((progress * 9 * (MILLI \div 10)) \div ENV_ONE)
                                          * (MILLI + linearity * 2), MILLI), MILLI)
    ELSE rate

\* The curve-shaped step of the rising (dir = 1) or falling (dir = 2) ramp.
slewenv_step(rate, linearity, cur, dir) ==
    IF linearity < -1
    THEN LET progress == IF dir = 1 THEN cur ELSE ENV_ONE - cur
             exp_amount == -linearity * 5
             curve_multiplier == ExpNeg((exp_amount * (EXP_SCALE \div MILLI) * progress) \div ENV_ONE)
             boost == MILLI + (-linearity * 3)
         IN  DivNearest(rate * DivNearest(curve_multiplier * boost, MILLI), EXP_SCALE)
    ELSE IF linearity > 1
    THEN LET progress == IF dir = 1 THEN cur ELSE ENV_ONE - cur
             shape == MILLI \div 10 + (progress * 9 * (MILLI \div 10)) \div ENV_ONE
             boost == MILLI + linearity * 2
         IN  DivNearest(rate * DivNearest(shape * boost, MILLI), MILLI)
    ELSE rate

\* An integrator that clamps at its bounds without changing state.
update_integrator_clamp(x, rise_time, fall_time, linearity) ==
    IF x.state = 1
    THEN [x EXCEPT !.current_output =
             Fmin(ENV_ONE, @ + slewenv_step(slewenv_rate(rise_time, x.sample_rate),
                                            linearity, @, 1))]
    ELSE IF x.state = 2
    THEN [x EXCEPT !.current_output =
             Fmax(0, @ - slewenv_step(slewenv_rate(fall_time, x.sample_rate),
                                      linearity, @, 2))]
    ELSE x

\* An integrator that changes state at its bounds without setting the value
\* to the bound.
update_integrator_overshoot(x, rise_time, fall_time, linearity) ==
    IF x.state = 1
    THEN LET c == x.current_output
                  + slewenv_step(slewenv_rate(rise_time, x.sample_rate), linearity,
                                 x.current_output, 1)
         IN  IF c >= ENV_ONE THEN [x EXCEPT !.current_output = c, !.state = 2]
             ELSE [x EXCEPT !.current_output = c]
    ELSE IF x.state = 2
    THEN LET c == x.current_output
                  - slewenv_step(slewenv_rate(fall_time, x.sample_rate), linearity,
                                 x.current_output, 2)
         IN  IF c <= 0
             THEN [x EXCEPT !.current_output = c,
                            !.state = IF x.loop_enabled # 0 THEN 1 ELSE 0]
             ELSE [x EXCEPT !.current_output = c]
    ELSE x

update_integrator(x, rise_time, fall_time, linearity) ==
    IF x.state = 0 THEN x
    ELSE IF x.state = 1
    THEN LET c == x.current_output
                  + slewenv_step(slewenv_rate(rise_time, x.sample_rate), linearity,
                                 x.current_output, 1)
         IN  IF c >= ENV_ONE THEN [x EXCEPT !.current_output = ENV_ONE, !.state = 2]
             ELSE [x EXCEPT !.current_output = c]
    ELSE IF x.state = 2
    THEN LET c == x.current_output
                  - slewenv_step(slewenv_rate(fall_time, x.sample_rate), linearity,
                                 x.current_output, 2)
         IN  IF c <= 0
             THEN [x EXCEPT !.current_output = 0,
                            !.state = IF x.loop_enabled # 0 THEN 1 ELSE 0]
             ELSE [x EXCEPT !.current_output = c]
    ELSE x

SENVCounts == {<<0, 0, 0, 0, 0>>, <<1, 1, 0, 0, 0>>}
\* Sample rates handed to slewenv_dsp64 (Hz): low, so that a ramp takes few samples.
SlewSrVals == {2}

slewenv_dsp64(x, count, samplerate) ==
    [x EXCEPT !.sample_rate = samplerate,
              !.trigger_has_signal = count[1], !.loop_has_signal = count[2],
              !.rise_has_signal = count[3], !.fall_has_signal = count[4],
              !.linearity_has_signal = count[5], !.dsp_added = 1]

\* One iteration of the sample loop of slewenv_perform64.
slewenv_sample(x, trigger_in, loop_in, rise_in, fall_in, linearity_in) ==
    LET trigger == IF x.trigger_has_signal # 0 THEN trigger_in ELSE x.prev_trigger
        loop_mode == IF x.loop_has_signal # 0 THEN loop_in ELSE x.loop_float
        rise_time == IF x.rise_has_signal # 0 THEN rise_in ELSE x.rise_float
        fall_time == IF x.fall_has_signal # 0 THEN fall_in ELSE x.fall_float
        linearity == IF x.linearity_has_signal # 0 THEN linearity_in ELSE x.linearity_float
        current_rise_time == CLAMP(rise_time, SENV_MIN_TIME, MILLI)
        current_fall_time == CLAMP(fall_time, SENV_MIN_TIME, MILLI)
        current_linearity == CLAMP(linearity, -MILLI, MILLI)
        x1 == [slewenv_edge(x, trigger) EXCEPT
                  !.loop_enabled = IF loop_mode # 0 THEN 1 ELSE 0,
                  !.rise_time = current_rise_time,
                  !.fall_time = current_fall_time,
                  !.linearity = current_linearity]
    IN  update_integrator(x1, current_rise_time, current_fall_time, current_linearity)

slewenv_float(x, inlet, f) ==
    CASE inlet = 0 -> slewenv_edge(x, f)
      [] inlet = 1 -> [x EXCEPT !.loop_float = f, !.loop_enabled = IF f # 0 THEN 1 ELSE 0]
      [] inlet = 2 -> [x EXCEPT !.rise_float = CLAMP(f, SENV_MIN_TIME, MILLI),
                                !.rise_time = CLAMP(f, SENV_MIN_TIME, MILLI)]
      [] inlet = 3 -> [x EXCEPT !.fall_float = CLAMP(f, SENV_MIN_TIME, MILLI),
                                !.fall_time = CLAMP(f, SENV_MIN_TIME, MILLI)]
      [] inlet = 4 -> [x EXCEPT !.linearity_float = CLAMP(f, -MILLI, MILLI),
                                !.linearity = CLAMP(f, -MILLI, MILLI)]
      [] OTHER -> x

\* slewenv_int converts and calls slewenv_float.
slewenv_int(x, inlet, n) == slewenv_float(x, inlet, n * MILLI)

slewenv_attr_setlooping(x, loop_value) ==
    LET enabled == IF loop_value # 0 THEN 1 ELSE 0
        y == [x EXCEPT !.loop_enabled = enabled, !.loop_float = enabled * MILLI]
    IN  IF x.loop_enabled = 0 /\ enabled = 1 THEN trigger_integrator(y, MILLI) ELSE y

\* Values arriving at the trigger inlet, and at the parameter inlets.
TrigIn == {-MILLI, 20 * MILLI}
LoopIn == {0, MILLI}
TimeIn == {0}
LinIn == {-(MILLI \div 2), MILLI}

\* Whether a value arriving at the trigger inlet is a rising edge.
RisingEdge(x, t) == t > 0 /\ x.prev_trigger <= 0

SENV_Dsp ==
    /\ run = "slewenv"
    /\ \E count \in SENVCounts, s \in SlewSrVals : senv' = slewenv_dsp64(senv, count, s)
    /\ trig' = 0
    /\ UNCHANGED <<insVars, fltVars, run, c2d, elfo, rlfo, cfold, hosc, decVars>>

\* perform64 is on the signal chain only once dsp64 has added it.
SENV_Perform ==
    /\ run = "slewenv"
    /\ senv.dsp_added = 1
    /\ \E t \in TrigIn, lp \in LoopIn :
          /\ senv' = slewenv_sample(senv, t, lp, 0, 0, 0)
          /\ trig' = IF senv.trigger_has_signal # 0 /\ RisingEdge(senv, t) THEN 1 ELSE 0
    /\ UNCHANGED <<insVars, fltVars, run, c2d, elfo, rlfo, cfold, hosc, decVars>>

SENV_FloatTrigger ==
    /\ run = "slewenv"
    /\ \E t \in TrigIn :
          /\ senv' = slewenv_float(senv, 0, t)
          /\ trig' = IF RisingEdge(senv, t) THEN 1 ELSE 0
    /\ UNCHANGED <<insVars, fltVars, run, c2d, elfo, rlfo, cfold, hosc, decVars>>

SENV_Float ==
    /\ run = "slewenv"
    /\ \/ \E f \in LoopIn : senv' = slewenv_float(senv, 1, f)
       \/ \E i \in 2..3, f \in TimeIn : senv' = slewenv_float(senv, i, f)
       \/ \E f \in LinIn : senv' = slewenv_float(senv, 4, f)
    /\ trig' = 0
    /\ UNCHANGED <<insVars, fltVars, run, c2d, elfo, rlfo, cfold, hosc, decVars>>

SENV_Int ==
    /\ run = "slewenv"
    /\ \E n \in {1} : senv' = slewenv_int(senv, 4, n)
    /\ trig' = 0
    /\ UNCHANGED <<insVars, fltVars, run, c2d, elfo, rlfo, cfold, hosc, decVars>>

SENV_AttrLooping ==
    /\ run = "slewenv"
    /\ \E v \in {0, 1} :
          /\ senv' = slewenv_attr_setlooping(senv, v)
          /\ trig' = IF senv.loop_enabled = 0 /\ v # 0 THEN 2 ELSE 0
    /\ UNCHANGED <<insVars, fltVars, run, c2d, elfo, rlfo, cfold, hosc, decVars>>

(***************************************************************************)
(* decay~                                                                  *)
(* Fixed point: levels count DEC_ONE units per 1.0, times MILLI units per  *)
(* 1.0, curves CURVE_ONE units per 1.0.  DENORMAL_THRESHOLD (1e-15) is the *)
(* smallest positive level of the model: a level below it is 0.  The       *)
(* product envelope * decay_coeff is truncated, so that it is strictly     *)
(* smaller than the envelope, as it is in doubles.                         *)
(***************************************************************************)
DEC_ONE == 16
DENORMAL_THRESHOLD == 1
MIN_DECAY_TIME == 1
MAX_DECAY_TIME == 60000
CURVE_ONE == 2
DEC_MAX_CURVE == 3 * CURVE_ONE
DEC_MAX_CLICK == 100
\* Length of the attack ramp of AD mode (44 samples in the source).
AttackLen == 2
\* The sample written when the normalisation divides by a peak of 0.0, or
\* the crossfade by a click protection of 0: not a finite number.
DEC_NAN == -1

RECURSIVE GCD(_, _)
GCD(a, b) == IF b = 0 THEN a ELSE GCD(b, a % b)

\* x^n in DEC_ONE units.
RECURSIVE FPow(_, _)
FPow(x, n) == IF n <= 0 THEN DEC_ONE ELSE DivNearest(FPow(x, n - 1) * x, DEC_ONE)

\* The largest y in lo..hi with y^q <= v.
RECURSIVE FRoot(_, _, _, _)
FRoot(v, q, lo, hi) ==
    IF lo >= hi THEN lo
    ELSE LET mid == (lo + hi + 1) \div 2
         IN  IF FPow(mid, q) <= v THEN FRoot(v, q, mid, hi) ELSE FRoot(v, q, lo, mid - 1)

\* pow(x, p / q)
PowFrac(x, p, q) ==
    LET g == GCD(p, q)
    IN  FRoot(FPow(x, p \div g), q \div g, 0, Fmax(FPow(x, p \div g), DEC_ONE))

\* A coefficient above 1.0: the exponent lost its sign.
decay_calculate_coefficient_growing(decay_time, sample_rate) ==
    IF decay_time <= 0 THEN 0
    ELSE 2 * EXP_SCALE - ExpNeg(DivNearest(EXP_SCALE * MILLI, decay_time * sample_rate))

decay_calculate_coefficient(decay_time, sample_rate) ==
    IF decay_time <= 0 THEN 0
    ELSE ExpNeg(DivNearest(EXP_SCALE * MILLI, decay_time * sample_rate))

decay_apply_curve(linear_value, curve) ==
    IF curve = 0 \/ linear_value <= 0 THEN linear_value
    ELSE IF curve < 0 THEN PowFrac(linear_value, CURVE_ONE + Abs(curve), CURVE_ONE)
    ELSE PowFrac(linear_value, CURVE_ONE, CURVE_ONE + curve)

\* decay_apply_curve over the progress values of an envelope whose peak was
\* not lowered below half the level it was triggered at.
CurveTable ==
    [linear_value \in 0..(2 * DEC_ONE), curve \in (-DEC_MAX_CURVE)..DEC_MAX_CURVE |->
        decay_apply_curve(linear_value, curve)]

denormal_fix(value) == IF Abs(value) < DENORMAL_THRESHOLD THEN 0 ELSE value

decay_new ==
    [decay_time_float |-> MILLI, curve_float |-> 0, peak |-> DEC_ONE,
     time_has_signal |-> 0, curve_has_signal |-> 0,
     envelope |-> 0, is_active |-> 0, retrig_mode |-> 1,
     smooth_samples_setting |-> 0, smooth_samples |-> 0, smooth_start_level |-> 0,
     sr |-> SysSr,
     envelope_mode |-> 0, curve_response |-> 1, click_protection |-> 0,
     retrigger_mode |-> 1, dsp_added |-> 0]

decay_dsp64(x, count, samplerate) ==
    [x EXCEPT !.sr = samplerate,
              !.time_has_signal = count[2], !.curve_has_signal = count[3],
              !.dsp_added = 1]

\* The curve handed to decay_apply_curve by the sample loop.
decay_final_curve(x, curve_in) ==
    LET curve == CLAMP(IF x.curve_has_signal # 0 THEN curve_in ELSE x.curve_float,
                       -DEC_MAX_CURVE, DEC_MAX_CURVE)
    IN  IF x.curve_has_signal = 0
        THEN CASE x.curve_response = 0 -> -((3 * CURVE_ONE) \div 2)
               [] x.curve_response = 1 -> 0
               [] x.curve_response = 2 -> (3 * CURVE_ONE) \div 2
               [] OTHER -> curve
        ELSE curve

\* The threshold branch of the sample loop without the reset of the level.
decay_stop_keeplevel(x) == [x EXCEPT !.is_active = 0]

\* The threshold branch of the sample loop: the level is reset and the
\* envelope marked finished.
decay_stop(x) == [x EXCEPT !.envelope = 0, !.is_active = 0]

\* F(v), with v evaluated a single time.
Once(v, F(_)) == CHOOSE y \in {F(w) : w \in {v}} : TRUE

\* The sample loop of decay_perform64 after the multiplication by the decay
\* coefficient; env is the product.
decay_shape(x, attack, curve_in, env) ==
    LET linear_progress == DivNearest(env * DEC_ONE, x.peak)
        shaped_progress ==
            IF linear_progress \in 0..(2 * DEC_ONE)
            THEN CurveTable[linear_progress, decay_final_curve(x, curve_in)]
            ELSE decay_apply_curve(linear_progress, decay_final_curve(x, curve_in))
        \* envelope / 0.0 is infinite or not a number, and so is its power;
        \* times the peak 0.0 it is not a number
        out0 == IF x.peak = 0 THEN DEC_NAN ELSE DivNearest(shaped_progress * x.peak, DEC_ONE)
        ramp == x.envelope_mode = 1 /\ attack < AttackLen
        out1 == IF ramp /\ out0 # DEC_NAN THEN DivNearest(out0 * attack, AttackLen) ELSE out0
        attack1 == IF x.envelope_mode # 1 THEN attack
                   ELSE IF attack < AttackLen THEN attack + 1 ELSE AttackLen
        stop == env < DENORMAL_THRESHOLD \/ (out1 # DEC_NAN /\ out1 < DENORMAL_THRESHOLD)
        x1 == IF x.is_active = 0 THEN x
              ELSE IF stop THEN decay_stop([x EXCEPT !.envelope = env])
              ELSE [x EXCEPT !.envelope = env]
        out2 == IF x.is_active = 0 \/ stop THEN 0 ELSE out1
        \* progress is a division by (double)click_protection: by 0.0 it is
        \* infinite, and the sample is infinite or not a number
        out3 == IF x.smooth_samples > 0 /\ out2 # DEC_NAN
                THEN IF x.click_protection = 0 THEN DEC_NAN
                     ELSE x.smooth_start_level
                          + DivNearest((out2 - x.smooth_start_level)
                                       * (x.click_protection - x.smooth_samples),
                                       x.click_protection)
                ELSE out2
        x2 == IF x.smooth_samples > 0 THEN [x1 EXCEPT !.smooth_samples = @ - 1] ELSE x1
    IN  <<x2, IF x.is_active = 0 THEN attack ELSE attack1,
          IF out3 = DEC_NAN THEN DEC_NAN ELSE denormal_fix(out3)>>

\* One iteration of the sample loop of decay_perform64: the object, the
\* static attack counter and the sample written.
decay_sample(x, attack, time_in, curve_in) ==
    LET decay_time == CLAMP(IF x.time_has_signal # 0 THEN time_in ELSE x.decay_time_float,
                            MIN_DECAY_TIME, MAX_DECAY_TIME)
    IN  Once((x.envelope * decay_calculate_coefficient(decay_time, x.sr)) \div EXP_SCALE,
             LAMBDA env : decay_shape(x, attack, curve_in, env))

decay_bang(x) ==
    LET env == IF x.retrigger_mode # 0 \/ x.is_active = 0 THEN x.peak ELSE x.envelope
    IN  [x EXCEPT !.smooth_start_level = x.envelope,
                  !.envelope = env,
                  !.smooth_samples =
                      IF x.click_protection > 0 /\ Abs(env - x.envelope) * MILLI > DEC_ONE
                      THEN x.click_protection ELSE 0,
                  !.is_active = 1]

decay_float(x, inlet, f) ==
    CASE inlet = 1 -> [x EXCEPT !.decay_time_float = CLAMP(f, MIN_DECAY_TIME, MAX_DECAY_TIME)]
      [] inlet = 2 -> [x EXCEPT !.curve_float = CLAMP(f, -DEC_MAX_CURVE, DEC_MAX_CURVE)]
      [] OTHER -> x

decay_peak(x, f) == [x EXCEPT !.peak = CLAMP(f, 0, DEC_ONE)]

decay_retrig(x, n) == [x EXCEPT !.retrig_mode = IF n # 0 THEN 1 ELSE 0]

decay_attr_setenvelopemode(x, v) == [x EXCEPT !.envelope_mode = CLAMP(v, 0, 2)]

decay_attr_setcurveresponse(x, v) == [x EXCEPT !.curve_response = CLAMP(v, 0, 2)]

decay_attr_setclickprotection(x, v) ==
    [x EXCEPT !.click_protection = CLAMP(v, 0, DEC_MAX_CLICK),
              !.smooth_samples_setting = CLAMP(v, 0, DEC_MAX_CLICK)]

decay_attr_setretriggermode(x, v) ==
    [x EXCEPT !.retrigger_mode = CLAMP(v, 0, 1), !.retrig_mode = CLAMP(v, 0, 1)]

DecSrVals == {2}
DecCounts == {<<0, 0, 0>>, <<0, 1, 1>>}
DecTimeIn == {0, MILLI}
DecCurveIn == {-(4 * CURVE_ONE), CURVE_ONE}
DecPeakIn == {-DEC_ONE, DEC_ONE \div 2}
DecModeIn == {0, 1}
DecResponseIn == {0, 2}
DecClickIn == {2}

Min(a, b) == IF a < b THEN a ELSE b

DEC_Dsp ==
    /\ run = "decay"
    /\ \E count \in DecCounts, sr \in DecSrVals : dec' = decay_dsp64(dec, count, sr)
    /\ since' = Min(since, 1)
    /\ UNCHANGED <<insVars, fltVars, run, c2d, elfo, rlfo, cfold, hosc, senv, trig, attack_samples, dout>>

DEC_Perform ==
    /\ run = "decay"
    /\ dec.dsp_added = 1
    /\ since' = 2
    /\ \E time_in \in DecTimeIn, curve_in \in DecCurveIn :
          \E r \in {decay_sample(dec, attack_samples, time_in, curve_in)} :
              /\ dec' = r[1]
              /\ attack_samples' = r[2]
              /\ dout' = r[3]
    /\ UNCHANGED <<insVars, fltVars, run, c2d, elfo, rlfo, cfold, hosc, senv, trig>>

DEC_Bang ==
    /\ run = "decay"
    /\ dec' = decay_bang(dec)
    /\ since' = 0
    /\ UNCHANGED <<insVars, fltVars, run, c2d, elfo, rlfo, cfold, hosc, senv, trig, attack_samples, dout>>

DEC_Float ==
    /\ run = "decay"
    /\ \/ \E f \in DecTimeIn : dec' = decay_float(dec, 1, f)
       \/ \E f \in DecCurveIn : dec' = decay_float(dec, 2, f)
    /\ UNCHANGED <<insVars, fltVars, run, c2d, elfo, rlfo, cfold, hosc, senv, trig, attack_samples, dout, since>>

DEC_Peak ==
    /\ run = "decay"
    /\ \E f \in DecPeakIn : dec' = decay_peak(dec, f)
    /\ since' = Min(since, 1)
    /\ UNCHANGED <<insVars, fltVars, run, c2d, elfo, rlfo, cfold, hosc, senv, trig, attack_samples, dout>>

DEC_Retrig ==
    /\ run = "decay"
    /\ \E n \in {0, 1} : dec' = decay_retrig(dec, n)
    /\ UNCHANGED <<insVars, fltVars, run, c2d, elfo, rlfo, cfold, hosc, senv, trig, attack_samples, dout, since>>

DEC_AttrEnvelopeMode ==
    /\ run = "decay"
    /\ \E v \in DecModeIn : dec' = decay_attr_setenvelopemode(dec, v)
    /\ since' = Min(since, 1)
    /\ UNCHANGED <<insVars, fltVars, run, c2d, elfo, rlfo, cfold, hosc, senv, trig, attack_samples, dout>>

DEC_AttrCurveResponse ==
    /\ run = "decay"
    /\ \E v \in DecResponseIn : dec' = decay_attr_setcurveresponse(dec, v)
    /\ since' = Min(since, 1)
    /\ UNCHANGED <<insVars, fltVars, run, c2d, elfo, rlfo, cfold, hosc, senv, trig, attack_samples, dout>>

DEC_AttrClickProtection ==
    /\ run = "decay"
    /\ \E v \in DecClickIn : dec' = decay_attr_setclickprotection(dec, v)
    /\ since' = Min(since, 1)
    /\ UNCHANGED <<insVars, fltVars, run, c2d, elfo, rlfo, cfold, hosc, senv, trig, attack_samples, dout>>

DEC_AttrRetriggerMode ==
    /\ run = "decay"
    /\ \E v \in {0, 1} : dec' = decay_attr_setretriggermode(dec, v)
    /\ UNCHANGED <<insVars, fltVars, run, c2d, elfo, rlfo, cfold, hosc, senv, trig, attack_samples, dout, since>>

(***************************************************************************)
(* ssm2044~, modvca~, noises~: the held scalars and the has-stream flags.  *)
(* Frequencies count MILLI units per Hz, the other parameters MILLI units  *)
(* per 1.0.                                                                *)
(***************************************************************************)
MAX_RESONANCE == 4000
MIN_TYPE == 0
MAX_TYPE == 6000
MIN_AMPLITUDE == 0
MAX_AMPLITUDE == 1000

\* The constructor given cutoff, resonance and gain arguments.
ssm2044_new_at(cutoff, resonance, gain) ==
    [cutoff_float |-> CLAMP(cutoff, 20 * MILLI, 20000 * MILLI),
     resonance_float |-> CLAMP(resonance, 0, MAX_RESONANCE),
     gain_float |-> CLAMP(gain, 0, 4 * MILLI),
     cutoff_has_signal |-> 0, resonance_has_signal |-> 0, gain_has_signal |-> 0,
     sr |-> SysSr,
     state1 |-> 0, state2 |-> 0, state3 |-> 0, state4 |-> 0, feedback_sample |-> 0,
     g |-> 0, k |-> 0,
     character_mode |-> 1, self_oscillation |-> 1, warmth_amount |-> MILLI \div 2,
     resonance_compensation |-> 1]

\* Without arguments: 1 kHz, resonance 0.5, unity gain.
ssm2044_new == ssm2044_new_at(1000 * MILLI, MILLI \div 2, MILLI)

ssm2044_dsp64(x, count, samplerate) ==
    [x EXCEPT !.sr = samplerate, !.cutoff_has_signal = count[2],
              !.resonance_has_signal = count[3], !.gain_has_signal = count[4]]

ssm2044_float(x, inlet, f) ==
    CASE inlet = 1 -> [x EXCEPT !.cutoff_float = CLAMP(f, 20 * MILLI, 20000 * MILLI)]
      [] inlet = 2 -> [x EXCEPT !.resonance_float = CLAMP(f, 0, MAX_RESONANCE)]
      [] inlet = 3 -> [x EXCEPT !.gain_float = CLAMP(f, 0, 4 * MILLI)]
      [] OTHER -> x

\* The cases of ssm2044_float, on (double)n.
ssm2044_int(x, inlet, n) == ssm2044_float(x, inlet, n * MILLI)

moddemix_vca_new == [level_float |-> 0, level_has_signal |-> 0, sr |-> SysSr]

moddemix_vca_dsp64(x, count, samplerate) ==
    [x EXCEPT !.sr = samplerate, !.level_has_signal = count[2]]

\* A level float that also marks the level inlet as unpatched.
moddemix_vca_float_unpatch(x, inlet, f) ==
    CASE inlet = 1 -> [x EXCEPT !.level_float = CLAMP(f, 0, MILLI), !.level_has_signal = 0]
      [] OTHER -> x

moddemix_vca_float(x, inlet, f) ==
    CASE inlet = 1 -> [x EXCEPT !.level_float = CLAMP(f, 0, MILLI)]
      [] OTHER -> x

\* The case of moddemix_vca_float, on (double)n.
moddemix_vca_int(x, inlet, n) == moddemix_vca_float(x, inlet, n * MILLI)

\* A uint32_t as <<high 16 bits, low 16 bits>>.
RECURSIVE Xor16(_, _)
Xor16(a, b) ==
    IF a = 0 THEN b
    ELSE IF b = 0 THEN a
    ELSE ((a + b) % 2) + 2 * Xor16(a \div 2, b \div 2)

Xor32(u, v) == <<Xor16(u[1], v[1]), Xor16(u[2], v[2])>>

\* u << k for 0 < k < 16, and u >> 17.
Shl32(u, k) ==
    <<(u[1] * Pow2(k) + u[2] \div Pow2(16 - k)) % Pow2(16), (u[2] * Pow2(k)) % Pow2(16)>>

Shr17(u) == <<0, u[1] \div 2>>

\* (uint32_t)n for a long n of small magnitude.
ToU32(n) == IF n >= 0 THEN <<n \div Pow2(16), n % Pow2(16)>>
            ELSE <<Pow2(16) - 1, Pow2(16) + n>>

\* The state after one step; the value returned is the new state.
xorshift32(state) ==
    LET Third(x2) == Xor32(x2, Shl32(x2, 5))
        Second(x1) == Third(Xor32(x1, Shr17(x1)))
    IN  Second(Xor32(state, Shl32(state, 13)))

\* (double)u / (double)UINT32_MAX in thousandths, and the same mapped to
\* [-1, 1].
UnitOf(u) == DivNearest(u[1] * MILLI + DivNearest(u[2] * MILLI, Pow2(16)), Pow2(16))

WhiteOf(u) == 2 * UnitOf(u) - MILLI

PINK_BITS == 5
VELVET_IMPULSES_PER_SEC == 2205
NUM_NOISE_TYPES == 7

\* Levels, selectors and filter coefficients in thousandths; smooth_factor
\* in millionths.
noises_init_generators(x) ==
    LET omega == DivNearest(6283 * MILLI, x.sr)
        alpha == DivNearest(NzSin(omega) * 1000, 1414)
    IN  [x EXCEPT !.pink_index = 0, !.pink_running_sum = 0,
                  !.pink_rows = [i \in 1..PINK_BITS |-> 0],
                  !.brown_state = 0, !.prev_white = 0, !.prev_blue = 0,
                  !.grey_b1 = DivNearest(-2 * NzCos(omega) * MILLI, MILLI + alpha),
                  !.grey_b2 = DivNearest((MILLI - alpha) * MILLI, MILLI + alpha),
                  !.grey_x1 = 0, !.grey_x2 = 0, !.grey_y1 = 0, !.grey_y2 = 0]

\* auto is ((long)x) ^ ((long)systime_ms()), the seed of an object
\* constructed with seed_auto on; type_arg is the first argument of the
\* object box.
noises_new_at(auto, type_arg) ==
    noises_init_generators(
        [type_float |-> Fmax(MIN_TYPE, Fmin(MAX_TYPE, type_arg)),
         amplitude_float |-> MILLI \div 2,
         type_has_signal |-> 0, amplitude_has_signal |-> 0,
         type_smooth |-> Fmax(MIN_TYPE, Fmin(MAX_TYPE, type_arg)),
         amplitude_smooth |-> MILLI \div 2, sr |-> 44100,
         morphing_enabled |-> 1, dc_blocking_enabled |-> 1, seed_auto |-> 1,
         filter_quality |-> 1, smooth_factor |-> 1000, dsp_added |-> 0,
         rng_state |-> IF ToU32(auto) = <<0, 0>> THEN <<0, 1>> ELSE ToU32(auto),
         pink_index |-> 0, pink_running_sum |-> 0, pink_rows |-> <<>>,
         brown_state |-> 0, prev_white |-> 0, prev_blue |-> 0,
         grey_b1 |-> 0, grey_b2 |-> 0,
         grey_x1 |-> 0, grey_x2 |-> 0, grey_y1 |-> 0, grey_y2 |-> 0,
         dc_block_x1 |-> 0, dc_block_y1 |-> 0])

\* The seeds two objects draw from their addresses and the clock.
NzAuto == <<305419896, 1450744508>>

noises_new == noises_new_at(NzAuto[1], 0)

\* smooth_factor = 1.0 - exp(-1.0 / (0.01 * samplerate)), by the series of
\* the exponential.
noises_dsp64(x, count, samplerate) ==
    LET e == DivNearest(100 * MILLI * MILLI, samplerate)
    IN  noises_init_generators(
            [x EXCEPT !.sr = samplerate, !.type_has_signal = count[1],
                      !.amplitude_has_signal = count[2], !.dsp_added = 1,
                      !.smooth_factor = e - DivNearest(e * e, 2 * MILLI * MILLI)])

\* The seed message without the write of the generator state.
noises_seed_keeprng(x, seed) ==
    noises_init_generators([x EXCEPT !.seed_auto = 0])

noises_seed(x, seed) ==
    noises_init_generators(
        [x EXCEPT !.rng_state = IF ToU32(seed) = <<0, 0>> THEN <<0, 1>> ELSE ToU32(seed),
                  !.seed_auto = 0])

noises_attr_setmorphing(x, v) == [x EXCEPT !.morphing_enabled = IF v # 0 THEN 1 ELSE 0]

\* Each generator returns the object after the call and the value returned.
noises_generate_white(x) ==
    LET Drawn(r) == <<[x EXCEPT !.rng_state = r], WhiteOf(r)>>
    IN  Drawn(xorshift32(x.rng_state))

\* The n states that follow state.
RECURSIVE Draws(_, _)
Draws(state, n) ==
    IF n = 0 THEN <<>>
    ELSE LET After(r) == <<r>> \o Draws(r, n - 1) IN After(xorshift32(state))

noises_generate_pink(x) ==
    LET Written(index, rows, sum, r) ==
            <<[x EXCEPT !.pink_index = index, !.pink_rows = rows,
                        !.pink_running_sum = sum, !.rng_state = r],
              DivNearest((sum + WhiteOf(r)) * 289, 500)>>
        Summed(index, num_zeros, d, rows) ==
            Written(index, rows,
                    IF index # 0
                    THEN x.pink_running_sum - x.pink_rows[num_zeros + 1] + WhiteOf(d[1])
                    ELSE SeqSum(rows),
                    xorshift32(d[Len(d)]))
        Drawn(index, num_zeros, d) ==
            Summed(index, num_zeros, d,
                   IF index # 0
                   THEN [x.pink_rows EXCEPT ![num_zeros + 1] = WhiteOf(d[1])]
                   ELSE [i \in 1..PINK_BITS |-> WhiteOf(d[i])])
        Indexed(index) ==
            Drawn(index,
                  CHOOSE k \in 0..(PINK_BITS - 1) : index % Pow2(k + 1) = Pow2(k),
                  Draws(x.rng_state, IF index # 0 THEN 1 ELSE PINK_BITS))
    IN  Indexed((x.pink_index + 1) % Pow2(PINK_BITS))

dc_block(x, input) ==
    LET output == input - x.dc_block_x1 + DivNearest(x.dc_block_y1 * 199, 200)
    IN  <<[x EXCEPT !.dc_block_x1 = input, !.dc_block_y1 = output], output>>

noises_generate_brown(x) ==
    LET Scaled(b) == <<b[1], DivNearest(b[2] * 9, 4)>>
        Blocked(x1, state) ==
            Scaled(IF x.dc_blocking_enabled # 0 THEN dc_block(x1, state) ELSE <<x1, state>>)
        Stepped(w, state) == Blocked([w[1] EXCEPT !.brown_state = state], state)
        Drawn(w) == Stepped(w, DivNearest(x.brown_state * 9999, 10000) + DivNearest(w[2], 10))
    IN  Drawn(noises_generate_white(x))

noises_generate_blue(x) ==
    LET Drawn(w) ==
            <<[w[1] EXCEPT !.prev_white = w[2]], DivNearest((w[2] - x.prev_white) * 3, 5)>>
    IN  Drawn(noises_generate_white(x))

noises_generate_violet(x) ==
    LET Drawn(b) ==
            <<[b[1] EXCEPT !.prev_blue = b[2]], DivNearest((b[2] - x.prev_blue) * 3, 5)>>
    IN  Drawn(noises_generate_blue(x))

noises_generate_grey(x) ==
    LET Filtered(w, output) ==
            <<[w[1] EXCEPT !.grey_x2 = x.grey_x1, !.grey_x1 = w[2],
                           !.grey_y2 = x.grey_y1, !.grey_y1 = output],
              DivNearest((IF x.filter_quality = 0 THEN DivNearest(output, 2)
                          ELSE IF x.filter_quality = 2 THEN DivNearest(output * 6, 5)
                          ELSE output) * 18, 25)>>
        Drawn(w) ==
            Filtered(w, w[2] + DivNearest(x.grey_b1 * x.grey_x1, MILLI)
                             + DivNearest(x.grey_b2 * x.grey_x2, MILLI)
                             - DivNearest(x.grey_b1 * x.grey_y1, MILLI)
                             - DivNearest(x.grey_b2 * x.grey_y2, MILLI))
    IN  Drawn(noises_generate_white(x))

noises_generate_velvet(x) ==
    LET Impulse(r2) ==
            <<[x EXCEPT !.rng_state = r2],
              DivNearest((IF r2[2] % 2 = 1 THEN MILLI ELSE -MILLI) * 4, 5)>>
        Drawn(r1) ==
            IF UnitOf(r1) * x.sr < VELVET_IMPULSES_PER_SEC * MILLI
            THEN Impulse(xorshift32(r1))
            ELSE <<[x EXCEPT !.rng_state = r1], 0>>
    IN  Drawn(xorshift32(x.rng_state))

\* The first part of noises_morph_types: every type is generated, in the
\* order of the type numbers; the object after the last call and the seven
\* samples (noise_types[t] is element t + 1).
noises_all_types(x) ==
    LET Velvet(t, velvet) == <<velvet[1], Append(t, velvet[2])>>
        Grey(t, grey) == Velvet(Append(t, grey[2]), noises_generate_velvet(grey[1]))
        Violet(t, violet) == Grey(Append(t, violet[2]), noises_generate_grey(violet[1]))
        Blue(t, blue) == Violet(Append(t, blue[2]), noises_generate_violet(blue[1]))
        Brown(t, brown) == Blue(Append(t, brown[2]), noises_generate_blue(brown[1]))
        Pink(t, pink) == Brown(Append(t, pink[2]), noises_generate_brown(pink[1]))
        White(white) == Pink(<<white[2]>>, noises_generate_pink(white[1]))
    IN  White(noises_generate_white(x))

\* The crossfade taken between the lower type and the type two above it.
noises_mix_skip(noise_types, morphing_enabled, type_param) ==
    LET type_int == type_param \div MILLI
        type_frac == type_param - type_int * MILLI
        nearest_type == CLAMP((type_param + MILLI \div 2) \div MILLI, 0, NUM_NOISE_TYPES - 1)
        smooth_frac == DivNearest(DivNearest(type_frac * type_frac, MILLI)
                                  * (3 * MILLI - 2 * type_frac), MILLI)
        angle == DivNearest(smooth_frac * 1571, 1000)
        noise_a == noise_types[type_int + 1]
        noise_b == noise_types[CLAMP(type_int + 3, 1, NUM_NOISE_TYPES)]
    IN  IF type_param <= 0 THEN DivNearest(noise_types[1] * 2, 5)
        ELSE IF type_param >= (NUM_NOISE_TYPES - 1) * MILLI
             THEN DivNearest(noise_types[NUM_NOISE_TYPES] * 2, 5)
        ELSE IF morphing_enabled = 0 THEN DivNearest(noise_types[nearest_type + 1] * 2, 5)
        ELSE IF type_frac * 10000 < MILLI THEN DivNearest(noise_a * 2, 5)
        ELSE DivNearest(DivNearest(noise_a * NzCos(angle) + noise_b * NzSin(angle), MILLI) * 2, 5)

\* The second part of noises_morph_types: the selection and crossfade.
noises_mix(noise_types, morphing_enabled, type_param) ==
    LET type_int == type_param \div MILLI
        type_frac == type_param - type_int * MILLI
        nearest_type == CLAMP((type_param + MILLI \div 2) \div MILLI, 0, NUM_NOISE_TYPES - 1)
        smooth_frac == DivNearest(DivNearest(type_frac * type_frac, MILLI)
                                  * (3 * MILLI - 2 * type_frac), MILLI)
        angle == DivNearest(smooth_frac * 1571, 1000)
        noise_a == noise_types[type_int + 1]
        noise_b == noise_types[type_int + 2]
    IN  IF type_param <= 0 THEN DivNearest(noise_types[1] * 2, 5)
        ELSE IF type_param >= (NUM_NOISE_TYPES - 1) * MILLI
             THEN DivNearest(noise_types[NUM_NOISE_TYPES] * 2, 5)
        ELSE IF morphing_enabled = 0 THEN DivNearest(noise_types[nearest_type + 1] * 2, 5)
        ELSE IF type_frac * 10000 < MILLI THEN DivNearest(noise_a * 2, 5)
        ELSE DivNearest(DivNearest(noise_a * NzCos(angle) + noise_b * NzSin(angle), MILLI) * 2, 5)

\* The selection and crossfade of the 22-type variant, which has no
\* morphing switch.
NUM_NOISE_TYPES_22 == 22

noises22_mix(noise_types, type_param) ==
    LET type_int == type_param \div MILLI
        type_frac == type_param - type_int * MILLI
        smooth_frac == DivNearest(DivNearest(type_frac * type_frac, MILLI)
                                  * (3 * MILLI - 2 * type_frac), MILLI)
        angle == DivNearest(smooth_frac * 1571, 1000)
        noise_a == noise_types[type_int + 1]
        noise_b == noise_types[type_int + 2]
    IN  IF type_param <= 0 THEN DivNearest(noise_types[1] * 2, 5)
        ELSE IF type_param >= (NUM_NOISE_TYPES_22 - 1) * MILLI
             THEN DivNearest(noise_types[NUM_NOISE_TYPES_22] * 2, 5)
        ELSE IF type_frac * 10000 < MILLI THEN DivNearest(noise_a * 2, 5)
        ELSE DivNearest(DivNearest(noise_a * NzCos(angle) + noise_b * NzSin(angle), MILLI) * 2, 5)

\* Only the two types next to the selector are generated.
noises_morph_types_adjacent(x, type_param) ==
    LET lo == CLAMP(type_param \div MILLI, 0, NUM_NOISE_TYPES - 2)
        a == <<noises_generate_white(x), noises_generate_pink(x),
               noises_generate_brown(x), noises_generate_blue(x),
               noises_generate_violet(x), noises_generate_grey(x),
               noises_generate_velvet(x)>>[lo + 1]
        b == <<noises_generate_white(a[1]), noises_generate_pink(a[1]),
               noises_generate_brown(a[1]), noises_generate_blue(a[1]),
               noises_generate_violet(a[1]), noises_generate_grey(a[1]),
               noises_generate_velvet(a[1])>>[lo + 2]
        noise_types == [t \in 1..NUM_NOISE_TYPES |->
                          IF t = lo + 1 THEN a[2] ELSE IF t = lo + 2 THEN b[2] ELSE 0]
    IN  <<b[1], noises_mix(noise_types, x.morphing_enabled, type_param)>>

noises_morph_types(x, type_param) ==
    LET Mixed(g) == <<g[1], noises_mix(g[2], x.morphing_enabled, type_param)>>
    IN  Mixed(noises_all_types(x))

smooth_param(current, target, smooth_factor) ==
    current + DivNearest(smooth_factor * (target - current), MILLI * MILLI)

\* One iteration of the sample loop: the object, the targets read and the
\* sample written.
noises_sample(x, type_in, amp_in) ==
    LET type_target == Fmax(MIN_TYPE, Fmin(MAX_TYPE,
                            IF x.type_has_signal # 0 THEN type_in ELSE x.type_float))
        amp_target == Fmax(MIN_AMPLITUDE, Fmin(MAX_AMPLITUDE,
                           IF x.amplitude_has_signal # 0 THEN amp_in ELSE x.amplitude_float))
        type_param == smooth_param(x.type_smooth, type_target,
                                   IF x.type_has_signal # 0
                                   THEN DivNearest(x.smooth_factor, 10) ELSE x.smooth_factor)
        amplitude == smooth_param(x.amplitude_smooth, amp_target,
                                  IF x.amplitude_has_signal # 0
                                  THEN DivNearest(x.smooth_factor, 10) ELSE x.smooth_factor)
        Written(m) == <<m[1], [type |-> type_target, amp |-> amp_target,
                               out |-> DivNearest(m[2] * amplitude, MILLI)]>>
    IN  Written(noises_morph_types([x EXCEPT !.type_smooth = type_param,
                                             !.amplitude_smooth = amplitude], type_param))

noises_float(x, inlet, f) ==
    CASE inlet = 0 -> [x EXCEPT !.type_float = Fmax(MIN_TYPE, Fmin(MAX_TYPE, f))]
      [] inlet = 1 -> [x EXCEPT !.amplitude_float = Fmax(MIN_AMPLITUDE, Fmin(MAX_AMPLITUDE, f))]
      [] OTHER -> x

(***************************************************************************)
(* cycle.fold~  (the folding function)                                     *)
(*                                                                         *)
(* Samples and fold amounts are in thousandths (MILLI is 1.0), frequencies *)
(* and sample rates in Hz.                                                 *)
(***************************************************************************)
\* Reflections after which the evaluation of the loop is given up.
FoldStepCap == 100

\* tanh at the multiples of 0.25, in EXP_SCALE units; 1.0 from 5.5 on.
TanhTable ==
    <<0, 2449, 4621, 6351, 7616, 8483, 9051, 9414, 9640, 9780, 9866, 9919,
      9951, 9970, 9982, 9989, 9993, 9996, 9998, 9999, 9999, 9999, 10000>>

\* tanh(a): the table, linear between its points.  Like tanh it is odd and
\* non-decreasing.
Tanh(a) ==
    LET m == Abs(a)
        i == (4 * m) \div MILLI
        f == (4 * m) % MILLI
        v == IF i + 1 >= Len(TanhTable) THEN TanhTable[Len(TanhTable)]
             ELSE TanhTable[i + 1]
                  + ((TanhTable[i + 2] - TanhTable[i + 1]) * f) \div MILLI
    IN  IF a < 0 THEN -v ELSE v

\* while (output > threshold || output < -threshold) { ... }: the value the
\* loop ends with and the number of reflections it made.  FoldStepCap
\* reflections end the evaluation.
RECURSIVE fold_reflect(_, _, _)
fold_reflect(output, threshold, n) ==
    IF n >= FoldStepCap THEN <<output, n>>
    ELSE IF output > threshold THEN fold_reflect(2 * threshold - output, threshold, n + 1)
    ELSE IF output < -threshold THEN fold_reflect(-2 * threshold - output, threshold, n + 1)
    ELSE <<output, n>>

\* tanh(v * drive) / tanh(drive)
fold_soft(v, drive) == DivNearest(Tanh(DivNearest(v * drive, MILLI)) * MILLI, Tanh(drive))

fold_safe_amount(x, fold_amount, frequency, sr) ==
    LET safe_fold_amount == IF fold_amount > 0 THEN fold_amount ELSE 0
        \* fmin(1.0, (sr * 0.5 / frequency) / 10.0)
        safe_fold_limit == Min(MILLI, DivNearest(sr * MILLI, 20 * frequency))
    IN  IF x.antialiasing_enabled # 0 /\ frequency > 20
        THEN Min(safe_fold_amount, safe_fold_limit)
        ELSE safe_fold_amount

\* The hybrid algorithm with the dry part at full weight.
fold_hybrid_fulldry(input, safe_fold_amount) ==
    LET threshold == MILLI - DivNearest(safe_fold_amount, 2)
        reflected == IF input > threshold THEN threshold + DivNearest(input - threshold, 2)
                     ELSE IF input < -threshold THEN -threshold + DivNearest(input + threshold, 2)
                     ELSE input
        soft == fold_soft(reflected, MILLI + 4 * safe_fold_amount)
        half == DivNearest(safe_fold_amount, 2)
    IN  reflected + DivNearest(soft * half, MILLI)

fold_hybrid(input, safe_fold_amount) ==
    LET threshold == MILLI - DivNearest(safe_fold_amount, 2)
        reflected == IF input > threshold THEN threshold + DivNearest(input - threshold, 2)
                     ELSE IF input < -threshold THEN -threshold + DivNearest(input + threshold, 2)
                     ELSE input
        soft == fold_soft(reflected, MILLI + 4 * safe_fold_amount)
        half == DivNearest(safe_fold_amount, 2)
    IN  DivNearest(reflected * (MILLI - half), MILLI) + DivNearest(soft * half, MILLI)

\* <<returned value, reflections of the loop>>
fold_wave_improved(input, fold_amount, frequency, sr, x) ==
    LET safe_fold_amount == fold_safe_amount(x, fold_amount, frequency, sr)
        t0 == MILLI - DivNearest(safe_fold_amount * 99, 100)
        threshold == IF t0 < MILLI \div 100 THEN MILLI \div 100 ELSE t0
    IN  CASE x.folding_algorithm = 0 -> fold_reflect(input, threshold, 0)
          [] x.folding_algorithm = 1 ->
               IF safe_fold_amount <= 0 THEN <<input, 0>>
               ELSE <<fold_soft(input, MILLI + 8 * safe_fold_amount), 0>>
          [] OTHER -> <<fold_hybrid(input, safe_fold_amount), 0>>

\* x->folding_algorithm = fmax(0, fmin(2, algorithm));
cyclefold_attr_setfolding(x, algorithm) ==
    [x EXCEPT !.folding_algorithm = CLAMP(algorithm, 0, 2)]

cyclefold_attr_setantialiasing(x, v) ==
    [x EXCEPT !.antialiasing_enabled = IF v # 0 THEN 1 ELSE 0]

FoldInputIn == {k * (MILLI \div 4) : k \in -4..4} \cup {-1, 1}
FoldAmountIn == {0, 1, MILLI \div 4, MILLI \div 2, MILLI - 1, MILLI}
FoldFreqIn == {1, 440, 20000}
FoldSrIn == {8000, 44100}
FoldAlgorithmIn == {-1, 0, 1, 2, 3}

\* No call yet.
FwInit ==
    [input |-> 0, fold_amount |-> 0, frequency |-> 1, sr |-> 44100, out |-> 0,
     steps |-> 0, calls |-> 0]

notFold == <<nz, nrun, dp, ssm_n, obs, run, fltVars, c2d, elfo, rlfo, hosc, senv, trig, decVars>>

FW_AttrFolding ==
    /\ run = "fold"
    /\ \E v \in FoldAlgorithmIn : cfold' = cyclefold_attr_setfolding(cfold, v)
    /\ UNCHANGED <<fw, notFold>>

FW_AttrAntialiasing ==
    /\ run = "fold"
    /\ \E v \in 0..1 : cfold' = cyclefold_attr_setantialiasing(cfold, v)
    /\ UNCHANGED <<fw, notFold>>

FW_Fold ==
    /\ run = "fold"
    /\ \E input \in FoldInputIn, fold_amount \in FoldAmountIn,
          frequency \in FoldFreqIn, sr \in FoldSrIn :
          \E r \in {fold_wave_improved(input, fold_amount, frequency, sr, cfold)} :
              fw' = [input |-> input, fold_amount |-> fold_amount,
                     frequency |-> frequency, sr |-> sr, out |-> r[1],
                     steps |-> r[2], calls |-> 1]
    /\ UNCHANGED <<cfold, notFold>>

(***************************************************************************)
(* ssm2044~  (the filter)                                                  *)
(*                                                                         *)
(* Samples, states, gains and attribute values are in thousandths;         *)
(* denormal_fix, whose threshold 1e-15 lies below the resolution, is the   *)
(* identity.                                                               *)
(***************************************************************************)
\* tanh(input * drive) / drive, or the input itself when drive <= 0
soft_saturation(input, drive) ==
    IF drive <= 0 THEN input
    ELSE LET saturated == DivNearest(Tanh(DivNearest(input * drive, MILLI)) * MILLI, EXP_SCALE)
         IN  DivNearest(saturated * MILLI, drive)

\* tan of an angle in [0, pi/2), angle and value in thousandths.
SsmTan(t) == DivNearest(NzSin(t) * MILLI, NzCos(t))

compute_filter_coefficients(x, cutoff, resonance) ==
    LET hz == CLAMP(cutoff \div MILLI, 20, (x.sr * 45) \div 100)
        omega_warped == SsmTan(DivNearest(3142 * hz, x.sr))
        g == CLAMP(DivNearest(omega_warped * MILLI, MILLI + omega_warped), 0, 990)
        k0 == resonance * 4
        k == IF x.resonance_compensation # 0
             THEN DivNearest(k0 * MILLI, MILLI + DivNearest(resonance * 3, 10))
             ELSE k0
    IN  [x EXCEPT !.g = g, !.k = k]

\* The returned sample is the new feedback_sample.
ssm2044_process_sample(x, input, cutoff, resonance, gain) ==
    LET y == compute_filter_coefficients(x, cutoff, resonance)
        scaled_input == DivNearest(input * gain, MILLI)
        drive_amount == CASE y.character_mode = 0 -> 750
                          [] y.character_mode = 2 -> 3000
                          [] OTHER -> 1500
        saturated_input == soft_saturation(scaled_input, drive_amount)
        feedback_drive == 2 * y.warmth_amount
        saturated_feedback == soft_saturation(y.feedback_sample, feedback_drive)
        actual_k == IF y.self_oscillation # 0 THEN y.k ELSE DivNearest(y.k * 8, 10)
        fb_input == saturated_input + DivNearest(actual_k * saturated_feedback, MILLI)
        stage1_out == y.state1 + DivNearest(y.g * (fb_input - y.state1), MILLI)
        stage2_out == y.state2 + DivNearest(y.g * (stage1_out - y.state2), MILLI)
        stage3_out == y.state3 + DivNearest(y.g * (stage2_out - y.state3), MILLI)
        stage4_out == y.state4 + DivNearest(y.g * (stage3_out - y.state4), MILLI)
    IN  [y EXCEPT !.state1 = stage1_out, !.state2 = stage2_out, !.state3 = stage3_out,
                  !.state4 = stage4_out, !.feedback_sample = stage4_out]

\* One iteration of the sample loop of ssm2044_perform64.
ssm2044_sample(x, audio, cutoff_in, resonance_in, gain_in) ==
    LET cutoff == IF x.cutoff_has_signal # 0 THEN cutoff_in ELSE x.cutoff_float
        resonance == IF x.resonance_has_signal # 0 THEN resonance_in ELSE x.resonance_float
        gain == IF x.gain_has_signal # 0 THEN gain_in ELSE x.gain_float
    IN  ssm2044_process_sample(x, audio, CLAMP(cutoff, 20 * MILLI, 20000 * MILLI),
                               CLAMP(resonance, 0, MAX_RESONANCE), CLAMP(gain, 0, 4 * MILLI))

ssm2044_attr_setcharacter(x, v) == [x EXCEPT !.character_mode = CLAMP(v, 0, 2)]
ssm2044_attr_setselfosc(x, v) == [x EXCEPT !.self_oscillation = IF v # 0 THEN 1 ELSE 0]
ssm2044_attr_setwarmth(x, v) == [x EXCEPT !.warmth_amount = CLAMP(v, 0, MILLI)]
ssm2044_attr_setrescomp(x, v) == [x EXCEPT !.resonance_compensation = IF v # 0 THEN 1 ELSE 0]

\* Samples processed in one behaviour, and the level beyond which no further
\* sample is computed.  The attributes are set before the first sample.
MaxSsmSamples == 4
SsmMaxLevel == 64 * MILLI
\* The resonance above which the filter is documented to self-oscillate.
SSM_SELF_OSC == 3500

SsmAudioIn == {0, MILLI}
SsmCutoffIn == {20000 * MILLI}
SsmGainIn == {4 * MILLI}
SsmCutoffArg == {1000 * MILLI, 20000 * MILLI}
SsmResonanceArg == {0, MILLI \div 2, SSM_SELF_OSC}
SsmWarmthIn == {-MILLI, 2 * MILLI}

notSsm == <<nz, nrun, dp, fw, obs, vca, noi, vac, run, c2d, elfo, rlfo, cfold, hosc, senv, trig, decVars>>

SSM_Perform ==
    /\ run = "ssm2044"
    /\ ssm_n < MaxSsmSamples
    /\ \A v \in {ssm.state1, ssm.state2, ssm.state3, ssm.state4} : Abs(v) <= SsmMaxLevel
    /\ \E audio \in SsmAudioIn, cutoff \in SsmCutoffIn, gain \in SsmGainIn :
          ssm' = ssm2044_sample(ssm, audio, cutoff, 0, gain)
    /\ ssm_n' = ssm_n + 1
    /\ UNCHANGED notSsm

SSM_AttrCharacter ==
    /\ run = "ssm2044"
    /\ ssm_n = 0
    /\ \E v \in {-1, 3} : ssm' = ssm2044_attr_setcharacter(ssm, v)
    /\ UNCHANGED <<ssm_n, notSsm>>

SSM_AttrSelfOsc ==
    /\ run = "ssm2044"
    /\ ssm_n = 0
    /\ \E v \in {0, 1} : ssm' = ssm2044_attr_setselfosc(ssm, v)
    /\ UNCHANGED <<ssm_n, notSsm>>

SSM_AttrWarmth ==
    /\ run = "ssm2044"
    /\ ssm_n = 0
    /\ \E v \in SsmWarmthIn : ssm' = ssm2044_attr_setwarmth(ssm, v)
    /\ UNCHANGED <<ssm_n, notSsm>>

SSM_AttrResComp ==
    /\ run = "ssm2044"
    /\ ssm_n = 0
    /\ \E v \in {0, 1} : ssm' = ssm2044_attr_setrescomp(ssm, v)
    /\ UNCHANGED <<ssm_n, notSsm>>

\* The objects that exist once.
(***************************************************************************)
(* vactrol~: the filter order, kept in the field pole_count and in the     *)
(* field poles of the attribute of the same name.                          *)
(***************************************************************************)
\* No attribute and no argument in the object box.
VacNone == 0

vactrol_attr_setpoles(x, v) == [x EXCEPT !.poles = CLAMP(v, 1, 2), !.pole_count = CLAMP(v, 1, 2)]

\* vactrol_new: attr_poles is the value of @poles in the object box (as
\* attr_args_process stores it through the accessor) and arg the first
\* argument when it is an integer, VacNone for none.
vactrol_new_at(attr_poles, arg) ==
    LET Args(x) == IF arg # VacNone THEN [x EXCEPT !.pole_count = CLAMP(arg, 1, 2)] ELSE x
        Sync(x) == Args([x EXCEPT !.pole_count = x.poles])
    IN  Sync(IF attr_poles # VacNone
             THEN vactrol_attr_setpoles([pole_count |-> 1, poles |-> 1], attr_poles)
             ELSE [pole_count |-> 1, poles |-> 1])

vactrol_new == vactrol_new_at(VacNone, VacNone)

vactrol_poles(x, poles) == [x EXCEPT !.pole_count = CLAMP(poles, 1, 2), !.poles = CLAMP(poles, 1, 2)]

VacPolesIn == {-1, 1, 2, 5}

VAC_Poles ==
    /\ run = "vactrol"
    /\ \E n \in VacPolesIn : vac' = vactrol_poles(vac, n)
    /\ UNCHANGED <<insVars, ssm, vca, noi, run, c2d, elfo, rlfo, cfold, hosc, senv, trig, decVars>>

VAC_AttrPoles ==
    /\ run = "vactrol"
    /\ \E n \in VacPolesIn : vac' = vactrol_attr_setpoles(vac, n)
    /\ UNCHANGED <<insVars, ssm, vca, noi, run, c2d, elfo, rlfo, cfold, hosc, senv, trig, decVars>>

oneVars == <<fltVars, c2d, elfo, rlfo, cfold, hosc, senv, trig, decVars>>

(***************************************************************************)
(* Two decay~ objects in one patch                                         *)
(***************************************************************************)
\* dp.a and dp.b are the two objects and dp.attack the function-local static
\* counter of decay_perform64, of which the program has one.  dp.solo is a
\* third object that receives what dp.a receives in a patch without dp.b,
\* dp.solo_attack the counter of that program; dp.out and dp.ref are the
\* last samples written by dp.a and dp.solo.
DpInit ==
    [a |-> decay_new, b |-> decay_new, attack |-> 0,
     solo |-> decay_new, solo_attack |-> 0, out |-> 0, ref |-> 0]

DP_Dsp ==
    /\ run = "decay"
    /\ \/ dp.a.dsp_added = 0
          /\ dp' = [dp EXCEPT !.a = decay_dsp64(@, <<0, 0, 0>>, 2),
                              !.solo = decay_dsp64(@, <<0, 0, 0>>, 2)]
       \/ dp.b.dsp_added = 0
          /\ dp' = [dp EXCEPT !.b = decay_dsp64(@, <<0, 0, 0>>, 2)]
    /\ UNCHANGED <<nz, nrun, fw, ssm_n, obs, run, oneVars>>

DP_Bang ==
    /\ run = "decay"
    /\ \/ dp' = [dp EXCEPT !.a = decay_bang(@), !.solo = decay_bang(@)]
       \/ dp' = [dp EXCEPT !.b = decay_bang(@)]
    /\ UNCHANGED <<nz, nrun, fw, ssm_n, obs, run, oneVars>>

DP_AttrEnvelopeMode ==
    /\ run = "decay"
    /\ \E v \in DecModeIn :
          \/ dp' = [dp EXCEPT !.a = decay_attr_setenvelopemode(@, v),
                              !.solo = decay_attr_setenvelopemode(@, v)]
          \/ dp' = [dp EXCEPT !.b = decay_attr_setenvelopemode(@, v)]
    /\ UNCHANGED <<nz, nrun, fw, ssm_n, obs, run, oneVars>>

\* One sample of dp.a (and of dp.solo in its own program), or one of dp.b.
DP_Perform ==
    /\ run = "decay"
    /\ \/ /\ dp.a.dsp_added = 1
          /\ \E r \in {decay_sample(dp.a, dp.attack, 0, 0)},
                q \in {decay_sample(dp.solo, dp.solo_attack, 0, 0)} :
                dp' = [dp EXCEPT !.a = r[1], !.attack = r[2], !.out = r[3],
                                 !.solo = q[1], !.solo_attack = q[2], !.ref = q[3]]
       \/ /\ dp.b.dsp_added = 1
          /\ \E r \in {decay_sample(dp.b, dp.attack, 0, 0)} :
                dp' = [dp EXCEPT !.b = r[1], !.attack = r[2]]
    /\ UNCHANGED <<nz, nrun, fw, ssm_n, obs, run, oneVars>>

\* Two noises~ objects in one patch.  The host compiles the signal chain
\* once, at NzSr, before it processes samples.
NzInst == 1..2
NzSr == 8000
MaxNzSamples == 2
\* The seeds given to an object that was given none.
NoSeed == {}
NzCounts == {<<0, 0>>}
NzTypeIn == {0, 5 * (MILLI \div 2)}
NzAmpIn == {2 * MILLI}
NzSeedIn == {1234567890}

\* What nrun[i] holds: the seed last given, the state the seed message does
\* not reset as it was when the seed arrived, one entry per sample written
\* since, and the number of samples written since construction.
NzRunInit ==
    [seed |-> NoSeed, hist |-> <<>>, samples |-> 0,
     snap |-> [dc |-> <<0, 0>>, type_smooth |-> 0, amplitude_smooth |-> 0]]

NZ_Dsp ==
    /\ run = "noises"
    /\ \E i \in NzInst, count \in NzCounts :
          /\ nz[i].dsp_added = 0
          /\ nz' = [nz EXCEPT ![i] = noises_dsp64(nz[i], count, NzSr)]
    /\ UNCHANGED <<nrun, dp, fw, ssm_n, obs, run, oneVars>>

NZ_Float ==
    /\ run = "noises"
    /\ \E i \in NzInst :
          \E f \in NzAmpIn : nz' = [nz EXCEPT ![i] = noises_float(nz[i], 1, f)]
    /\ UNCHANGED <<nrun, dp, fw, ssm_n, obs, run, oneVars>>

NZ_AttrMorphing ==
    /\ run = "noises"
    /\ \E i \in NzInst :
          nz' = [nz EXCEPT ![i] = noises_attr_setmorphing(nz[i], 0)]
    /\ UNCHANGED <<nrun, dp, fw, ssm_n, obs, run, oneVars>>

NZ_Seed ==
    /\ run = "noises"
    /\ \E i \in NzInst, seed \in NzSeedIn :
          /\ nrun[i].seed = NoSeed
          /\ nz' = [nz EXCEPT ![i] = noises_seed(nz[i], seed)]
          /\ nrun' = [nrun EXCEPT ![i] =
                        [seed |-> {seed}, hist |-> <<>>, samples |-> nrun[i].samples,
                         snap |-> [dc |-> <<nz[i].dc_block_x1, nz[i].dc_block_y1>>,
                                   type_smooth |-> nz[i].type_smooth,
                                   amplitude_smooth |-> nz[i].amplitude_smooth]]]
    /\ UNCHANGED <<dp, fw, ssm_n, obs, run, oneVars>>

NZ_Perform ==
    /\ run = "noises"
    /\ \E i \in NzInst :
          /\ nz[i].dsp_added = 1
          /\ nrun[i].samples < MaxNzSamples
          /\ \E r \in {noises_sample(nz[i], 0, 0)} :
                /\ nz' = [nz EXCEPT ![i] = r[1]]
                /\ nrun' = [nrun EXCEPT ![i].hist = Append(@, r[2]),
                                        ![i].samples = @ + 1]
    /\ UNCHANGED <<dp, fw, ssm_n, obs, run, oneVars>>

\* The cases of cycle2d_float, on (double)n.
cycle2d_int(x, inlet, n) ==
    cycle2d_float(x, inlet, IF inlet = 0 THEN Fl(n * MILLI) ELSE n * One)

\* The cases of easelfo_float, on (double)n.
easelfo_int(x, inlet, n) ==
    easelfo_float(x, inlet, IF inlet = 0 THEN Fl(n * MILLI) ELSE n * One)

\* dsp64 arguments, and the floats and ints arriving at the parameter inlets.
ParamCounts == {<<0, 0, 0, 0>>, <<1, 1, 0, 1>>}
ParamIn == {-MILLI, MILLI \div 4, 30000 * MILLI}
IntIn == {0, 1}

SSM_Dsp ==
    /\ run = "ssm2044"
    /\ \E count \in ParamCounts, s \in SrVals : ssm' = ssm2044_dsp64(ssm, count, s)
    /\ UNCHANGED <<insVars, vca, noi, vac, run, c2d, elfo, rlfo, cfold, hosc, senv, trig, decVars>>

SSM_Float ==
    /\ run = "ssm2044"
    /\ \E i \in 0..3, f \in ParamIn : ssm' = ssm2044_float(ssm, i, f)
    /\ UNCHANGED <<insVars, vca, noi, vac, run, c2d, elfo, rlfo, cfold, hosc, senv, trig, decVars>>

SSM_Int ==
    /\ run = "ssm2044"
    /\ \E i \in 0..3, n \in IntIn : ssm' = ssm2044_int(ssm, i, n)
    /\ UNCHANGED <<insVars, vca, noi, vac, run, c2d, elfo, rlfo, cfold, hosc, senv, trig, decVars>>

VCA_Dsp ==
    /\ run = "modvca"
    /\ \E count \in ParamCounts, s \in SrVals : vca' = moddemix_vca_dsp64(vca, count, s)
    /\ UNCHANGED <<insVars, ssm, noi, vac, run, c2d, elfo, rlfo, cfold, hosc, senv, trig, decVars>>

VCA_Float ==
    /\ run = "modvca"
    /\ \E i \in 0..1, f \in ParamIn : vca' = moddemix_vca_float(vca, i, f)
    /\ UNCHANGED <<insVars, ssm, noi, vac, run, c2d, elfo, rlfo, cfold, hosc, senv, trig, decVars>>

VCA_Int ==
    /\ run = "modvca"
    /\ \E i \in 0..1, n \in IntIn : vca' = moddemix_vca_int(vca, i, n)
    /\ UNCHANGED <<insVars, ssm, noi, vac, run, c2d, elfo, rlfo, cfold, hosc, senv, trig, decVars>>

NOI_Dsp ==
    /\ run = "noises"
    /\ \E count \in ParamCounts, s \in SrVals : noi' = noises_dsp64(noi, count, s)
    /\ UNCHANGED <<insVars, ssm, vca, vac, run, c2d, elfo, rlfo, cfold, hosc, senv, trig, decVars>>

NOI_Float ==
    /\ run = "noises"
    /\ \E i \in 0..1, f \in ParamIn : noi' = noises_float(noi, i, f)
    /\ UNCHANGED <<insVars, ssm, vca, vac, run, c2d, elfo, rlfo, cfold, hosc, senv, trig, decVars>>

C2D_Int ==
    /\ run = "cycle2d"
    /\ \E i \in 0..3, n \in IntIn : c2d' = cycle2d_int(c2d, i, n)
    /\ obs' = ObsInit
    /\ UNCHANGED <<notObs, fltVars, run, elfo, rlfo, cfold, hosc, senv, trig, decVars>>

ELFO_Int ==
    /\ run = "easelfo"
    /\ \E i \in 0..2, n \in IntIn : elfo' = easelfo_int(elfo, i, n)
    /\ obs' = ObsInit
    /\ UNCHANGED <<notObs, fltVars, run, c2d, rlfo, cfold, hosc, senv, trig, decVars>>

\* Every object as its constructor leaves it.
\* The two noises~ objects as constructed with the type arguments args.
NzConstructed(args) == nz = [i \in NzInst |-> noises_new_at(NzAuto[i], args[i])]

\* Every other object as constructed.
Constructed ==
    /\ c2d = cycle2d_new
    /\ elfo = easelfo_new
    /\ rlfo = ramplfo_new
    /\ cfold = cyclefold_new
    /\ senv = slewenv_new
    /\ trig = 0
    /\ dec = decay_new
    /\ attack_samples = 0
    /\ dout = 0
    /\ since = 0
    /\ vca = moddemix_vca_new
    /\ vac = vactrol_new
    /\ noi = noises_new
    /\ nrun = [i \in NzInst |-> NzRunInit]
    /\ dp = DpInit
    /\ fw = FwInit
    /\ ssm_n = 0
    /\ obs = ObsInit

InitOsc ==
    /\ run \in {"cycle2d", "easelfo", "ramplfo", "cyclefold", "harmosc"}
    /\ Constructed /\ NzConstructed(<<0, 0>>) /\ hosc = harmosc_new /\ ssm = ssm2044_new

NextOsc ==
    \/ C2D_Dsp \/ C2D_Perform \/ C2D_Float \/ C2D_Bang
    \/ ELFO_Dsp \/ ELFO_Perform \/ ELFO_Float \/ ELFO_Bang \/ ELFO_Mirror
    \/ RLFO_Dsp \/ RLFO_Perform \/ RLFO_Float \/ RLFO_Bang
    \/ CF_Dsp \/ CF_Perform \/ CF_Float \/ CF_Bang
    \/ HOSC_Dsp \/ HOSC_Perform \/ HOSC_Float \/ HOSC_Amps

SpecOsc == InitOsc /\ [][NextOsc]_vars

PhaseInRange(p) == 0 <= p /\ p < One

InitSlew ==
    /\ run = "slewenv"
    /\ Constructed /\ NzConstructed(<<0, 0>>) /\ hosc = harmosc_new /\ ssm = ssm2044_new

NextSlew ==
    \/ SENV_Dsp \/ SENV_Perform \/ SENV_FloatTrigger \/ SENV_Float \/ SENV_Int
    \/ SENV_AttrLooping

SpecSlew == InitSlew /\ [][NextSlew]_vars

\* The host keeps calling perform64 while the signal chain runs.
FairSpecSlew == SpecSlew /\ WF_vars(SENV_Perform)

InitDecay ==
    /\ run = "decay"
    /\ Constructed /\ NzConstructed(<<0, 0>>) /\ hosc = harmosc_new /\ ssm = ssm2044_new

\* The envelope and its shaping: triggers, samples, peak and the attributes
\* read by the sample loop.
NextDecayEnv ==
    \/ DEC_Dsp \/ DEC_Perform \/ DEC_Bang \/ DEC_Peak
    \/ DEC_AttrEnvelopeMode \/ DEC_AttrCurveResponse \/ DEC_AttrClickProtection

SpecDecayEnv == InitDecay /\ [][NextDecayEnv]_vars

\* The audio thread keeps calling the perform routine once it is in the chain.
FairSpecDecayEnv == SpecDecayEnv /\ WF_vars(DEC_Perform)

\* The messages: triggers, samples, float inlets and the retrigger mode.
NextDecayMsg ==
    \/ DEC_Dsp \/ DEC_Perform \/ DEC_Bang \/ DEC_Float \/ DEC_Retrig
    \/ DEC_AttrRetriggerMode

SpecDecayMsg == InitDecay /\ [][NextDecayMsg]_vars

\* Every external with float or int inlets, with its messages.
InitAll ==
    /\ run \in {"cycle2d", "easelfo", "ramplfo", "cyclefold", "harmosc", "slewenv",
                "decay", "ssm2044", "modvca", "noises"}
    /\ Constructed /\ NzConstructed(<<0, 0>>) /\ hosc = harmosc_new /\ ssm = ssm2044_new

NextAll ==
    \/ NextOsc \/ C2D_Int \/ ELFO_Int
    \/ NextSlew
    \/ NextDecayMsg
    \/ SSM_Dsp \/ SSM_Float \/ SSM_Int
    \/ VCA_Dsp \/ VCA_Float \/ VCA_Int
    \/ NOI_Dsp \/ NOI_Float

\* Two objects, each constructed with a type argument of NzTypeIn.
InitNoise ==
    /\ run = "noises"
    /\ \E args \in [NzInst -> NzTypeIn] : NzConstructed(args)
    /\ Constructed /\ hosc = harmosc_new /\ ssm = ssm2044_new

NextNoise == NZ_Dsp \/ NZ_Float \/ NZ_AttrMorphing \/ NZ_Seed \/ NZ_Perform

SpecNoise == InitNoise /\ [][NextNoise]_vars

NextDecayPair == DP_Dsp \/ DP_Bang \/ DP_AttrEnvelopeMode \/ DP_Perform

SpecDecayPair == InitDecay /\ [][NextDecayPair]_vars

InitFold ==
    /\ run = "fold"
    /\ Constructed /\ NzConstructed(<<0, 0>>) /\ hosc = harmosc_new /\ ssm = ssm2044_new

NextFold == FW_AttrFolding \/ FW_AttrAntialiasing \/ FW_Fold

SpecFold == InitFold /\ [][NextFold]_vars

\* harmosc~ constructed with 1..MaxHarmCount harmonics, and the messages and
\* attributes that set its amplitudes.
InitHarm ==
    /\ run = "harmosc"
    /\ Constructed /\ NzConstructed(<<0, 0>>) /\ ssm = ssm2044_new
    /\ \E num \in 1..MaxHarmCount : hosc = harmosc_new_at(num)

NextHarm ==
    \/ HOSC_Falloff \/ HOSC_Amps \/ HOSC_All \/ HOSC_Odd \/ HOSC_Even
    \/ HOSC_AttrHarmonicMode \/ HOSC_AttrFalloffCurve \/ HOSC_AttrAmplitudeControl

SpecHarm == InitHarm /\ [][NextHarm]_vars

\* ssm2044~ constructed with a cutoff and a resonance up to the
\* self-oscillation threshold, its attributes, and its sample loop.
InitSsm ==
    /\ run = "ssm2044"
    /\ Constructed /\ NzConstructed(<<0, 0>>) /\ hosc = harmosc_new
    /\ \E cutoff \in SsmCutoffArg, resonance \in SsmResonanceArg :
          ssm = ssm2044_new_at(cutoff, resonance, MILLI)

NextSsm ==
    \/ SSM_Dsp \/ SSM_Perform
    \/ SSM_AttrCharacter \/ SSM_AttrSelfOsc \/ SSM_AttrWarmth \/ SSM_AttrResComp

SpecSsm == InitSsm /\ [][NextSsm]_vars

\* cycle-2d~ and its buffer message.
InitTables ==
    /\ run = "cycle2d"
    /\ Constructed /\ NzConstructed(<<0, 0>>) /\ hosc = harmosc_new /\ ssm = ssm2044_new

NextTables == C2D_Buffer \/ C2D_Bang

SpecTables == InitTables /\ [][NextTables]_vars

SpecAll == InitAll /\ [][NextAll]_vars

(***************************************************************************)
(* Phase accumulators                                                      *)
(***************************************************************************)
\* C1: in cycle-2d~, easelfo~ and ramplfo~ the stored phase lies in [0, 1)
\* after every processed sample, for every frequency and phase offset
\* (negative values and multiple wraps included).
\* Violated by easelfo~: its stream frequency is not clamped, and a tiny
\* negative increment leaves the second while loop at p + 1.0, which rounds
\* to exactly 1.0.
C1_PhaseInUnitInterval ==
    /\ PhaseInRange(c2d.phase)
    /\ PhaseInRange(elfo.phase)
    /\ PhaseInRange(rlfo.phase)

\* C2: in cycle.fold~ and harmosc~ the stored phase lies in [0, 1) for every
\* sample rate and frequency (increments above 1 and negative frequencies
\* included).
\* Violated by both: each wraps with a single if, harmosc~ has no wrap for
\* negative phases and does not clamp the stream frequency.
C2_SingleWrapInUnitInterval ==
    /\ PhaseInRange(cfold.phase)
    /\ PhaseInRange(hosc.phase)

(***************************************************************************)
(* slewenv~ state machine                                                  *)
(***************************************************************************)
\* The two transitions at the integrator bounds.
AtBounds(x, y) ==
    \/ x.state = 1 /\ y.state = 2 /\ y.current_output = ENV_ONE
    \/ /\ x.state = 2 /\ y.current_output = 0
       /\ y.state = IF y.loop_enabled # 0 THEN 1 ELSE 0

\* What one call of update_integrator may do to a state.
IntegratorStepOk(x, y) ==
    /\ x.state = 0 => y = x
    /\ x.state = 1 => \/ y.state = 1 /\ y.current_output < ENV_ONE
                      \/ y.state = 2 /\ y.current_output = ENV_ONE
    /\ x.state = 2 => \/ y.state = 2 /\ y.current_output > 0
                      \/ /\ y.current_output = 0
                         /\ y.state = IF x.loop_enabled # 0 THEN 1 ELSE 0

SlewTimes == {SENV_MIN_TIME, MILLI \div 10, MILLI}
SlewLins == {-MILLI, -(MILLI \div 2), 0, MILLI}

IntegratorOk ==
    run = "slewenv" =>
        \A r \in SlewTimes, f \in SlewTimes, l \in SlewLins :
            IntegratorStepOk(senv, update_integrator(senv, r, f, l))

\* C3 as stated: apart from trigger events (rising edges of the trigger
\* input), the state of slewenv~ changes only at the integrator bounds:
\* rising at 1.0 becomes falling at exactly 1.0, falling at 0.0 becomes rising
\* (loop enabled) or idle at exactly 0.0, and no other state change occurs.
\* Violated: setting the looping attribute from 0 to 1 calls
\* trigger_integrator and makes an idle or falling envelope rise.
C3_StateChangesOnlyAtBounds ==
    [][run = "slewenv" /\ senv'.state # senv.state
          => trig' = 1 \/ AtBounds(senv, senv')]_vars

\* C3 amended: apart from trigger events and the auto-trigger of the looping
\* attribute (0 -> 1), the state changes only at the integrator bounds, and
\* every integrator step either stays in its state strictly inside the
\* bounds or lands exactly on the bound with the state changed.
C3_StateChangesAtBoundsOrAutoTrigger ==
    /\ []IntegratorOk
    /\ [][run = "slewenv" /\ senv'.state # senv.state
             => trig' \in {1, 2} \/ AtBounds(senv, senv')]_vars

\* A rising envelope has just reached the top and turned to falling.
C3_Witness ==
    /\ run = "slewenv" /\ trig = 0
    /\ senv.state = 2 /\ senv.current_output = ENV_ONE /\ senv.linearity # 0

\* Values tried at the trigger inlet.
C4Trig == TrigIn \cup {0, MILLI}

\* C4: a value arriving at the trigger input of slewenv~ (float message or
\* stream sample) triggers exactly when it is a rising edge (previous value
\* <= 0, new value > 0); the trigger sets the state to rising and leaves the
\* integrator value unchanged (the ramp continues from it); a positive value
\* after a positive value does not retrigger.
C4_TriggerOnRisingEdgeOnly ==
    run = "slewenv" =>
        \A t \in C4Trig :
            LET y == slewenv_float(senv, 0, t)
                z == slewenv_sample(senv, t, senv.loop_float, 0, 0, 0)
                idle == [senv EXCEPT !.state = 0]
            IN  /\ y.current_output = senv.current_output
                /\ y.prev_trigger = t
                /\ IF RisingEdge(senv, t)
                   THEN y.state = 1 /\ y.trigger_amplitude = CLAMP(t, 0, SENV_MAX_AMP)
                   ELSE y.state = senv.state
                        /\ y.trigger_amplitude = senv.trigger_amplitude
                /\ IF senv.trigger_has_signal # 0 /\ RisingEdge(senv, t)
                   THEN /\ z.state \in {1, 2}
                        /\ z.current_output >= senv.current_output
                        /\ z.trigger_amplitude = CLAMP(t, 0, SENV_MAX_AMP)
                   ELSE /\ z.trigger_amplitude = senv.trigger_amplitude
                        /\ senv.state = 0 => z.state = 0
                        /\ senv.state = 2 => z.current_output <= senv.current_output

\* A rising edge at the trigger input has just set the envelope rising, the
\* integrator inside (0, 1).
C4_Witness ==
    /\ run = "slewenv" /\ trig = 1 /\ senv.state = 1
    /\ senv.current_output > 0 /\ senv.current_output < ENV_ONE
    /\ senv.prev_trigger > 0

\* C5: after a trigger with loop mode disabled and no further trigger, the
\* envelope reaches idle with integrator value 0 after finitely many samples,
\* and stays idle (at 0) until the next trigger.
C5_EventuallyIdle ==
    /\ (senv.state # 0 /\ trig = 0 /\ senv.loop_enabled = 0 /\ senv.dsp_added = 1)
          ~> \/ senv.state = 0 /\ senv.current_output = 0
             \/ trig # 0
             \/ senv.loop_enabled # 0
    /\ [][senv.state = 0 /\ trig' = 0
             => senv'.state = 0 /\ senv'.current_output = 0]_vars

\* The envelope is back at idle after a trigger had started it.
C5_Witness ==
    /\ run = "slewenv" /\ trig = 0 /\ senv.dsp_added = 1
    /\ senv.state = 0 /\ senv.current_output = 0
    /\ senv.prev_trigger > 0 /\ senv.loop_enabled = 0 /\ senv.linearity < 0

(***************************************************************************)
(* decay~                                                                  *)
(***************************************************************************)
\* Two consecutive samples, the second no larger in magnitude.
NonIncreasing(a, b) == a # DEC_NAN /\ b # DEC_NAN /\ Abs(b) <= Abs(a)

C7_EventuallyInactiveAtZero ==
    /\ [](dec.is_active = 0 => dec.envelope = 0)
    /\ (dec.is_active = 1 /\ dec.dsp_added = 1) ~> (dec.is_active = 0 \/ since = 0)

\* An envelope that was retriggered above zero has run out: no bang since
\* the last sample, the level is zero and the envelope inactive.
C7_Witness ==
    /\ dec.is_active = 0 /\ dec.envelope = 0
    /\ since = 2 /\ dec.smooth_start_level > 0

\* C8: the mode chosen by the retrig message governs every later bang: in
\* mode 0 a bang received while the envelope is active leaves the level
\* unchanged, in mode 1 a bang sets the level to the peak amplitude.
\* Violated: decay_retrig stores the mode in retrig_mode, decay_bang reads
\* retrigger_mode.
C8_RetrigGovernsBang ==
    LET y == decay_bang(dec)
    IN  /\ dec.retrig_mode = 0 /\ dec.is_active = 1 => y.envelope = dec.envelope
        /\ dec.retrig_mode = 1 => y.envelope = dec.peak

\* C9: with no stream at the curve inlet the curve that shapes a sample is
\* the held curve scalar.
\* Violated: without a stream the sample loop replaces the held scalar by the
\* constant selected by curve_response.
C9_HeldCurveShapesSamples ==
    dec.curve_has_signal = 0
        => \A c \in DecCurveIn : decay_final_curve(dec, c) = dec.curve_float

(***************************************************************************)
(* Float and int messages                                                  *)
(***************************************************************************)
\* y differs from x in the named fields at most.
OnlyChanged(x, y, fields) == \A k \in DOMAIN x : k \notin fields => y[k] = x[k]

\* The floats tried at inlet i of an oscillator.
OscVals(i) == IF i = 0 THEN FreqIn ELSE UnitIn

\* The floats tried at inlet i of slewenv~.
SlewVals(i) ==
    CASE i = 0 -> TrigIn [] i = 1 -> LoopIn [] i = 4 -> LinIn [] OTHER -> TimeIn \cup {MILLI}

\* Every float and int handler, applied to the current objects, changes the
\* held scalar of its inlet at most; in harmosc~ and slewenv~ also the fields
\* hoscAlso[inlet + 1] and senvAlso[inlet + 1].
FloatFrame(hoscAlso, senvAlso) ==
    /\ \A i \in 0..3 : \A f \in OscVals(i) :
          OnlyChanged(c2d, cycle2d_float(c2d, i, f),
                      {<<"freq_float", "x_float", "y_float", "phase_offset_float">>[i + 1]})
    /\ \A i \in 0..3 : \A n \in IntIn :
          OnlyChanged(c2d, cycle2d_int(c2d, i, n),
                      {<<"freq_float", "x_float", "y_float", "phase_offset_float">>[i + 1]})
    /\ \A i \in 0..2 : \A f \in OscVals(i) :
          OnlyChanged(elfo, easelfo_float(elfo, i, f),
                      {<<"freq_float", "easing_float", "phase_offset_float">>[i + 1]})
    /\ \A i \in 0..2 : \A n \in IntIn :
          OnlyChanged(elfo, easelfo_int(elfo, i, n),
                      {<<"freq_float", "easing_float", "phase_offset_float">>[i + 1]})
    /\ \A i \in 0..5 : \A f \in OscVals(i) :
          OnlyChanged(rlfo, ramplfo_float(rlfo, i, f),
                      {<<"freq_float", "shape_float", "rise_curve_float",
                         "fall_curve_float", "jitter_float", "phase_offset_float">>[i + 1]})
    /\ \A i \in 0..2 : \A f \in OscVals(i) :
          OnlyChanged(cfold, cyclefold_float(cfold, i, f),
                      {<<"frequency_float", "fold_amount_float", "warp_amount_float">>[i + 1]})
    /\ \A f \in HoscFreqIn :
          OnlyChanged(hosc, harmosc_float(hosc, 0, f), {"freq_float"} \cup hoscAlso[1])
    /\ \A f \in FalloffIn :
          OnlyChanged(hosc, harmosc_float(hosc, 1, f), {"falloff_float"} \cup hoscAlso[2])
    /\ \A i \in 0..4 : \A f \in SlewVals(i) :
          OnlyChanged(senv, slewenv_float(senv, i, f),
                      {<<"prev_trigger", "loop_float", "rise_float", "fall_float",
                         "linearity_float">>[i + 1]} \cup senvAlso[i + 1])
    /\ \A i \in 0..4 : \A n \in IntIn :
          OnlyChanged(senv, slewenv_int(senv, i, n),
                      {<<"prev_trigger", "loop_float", "rise_float", "fall_float",
                         "linearity_float">>[i + 1]} \cup senvAlso[i + 1])
    /\ \A i \in 1..2 : \A f \in DecTimeIn \cup DecCurveIn :
          OnlyChanged(dec, decay_float(dec, i, f), {<<"decay_time_float", "curve_float">>[i]})
    /\ \A i \in 1..3 : \A f \in ParamIn :
          OnlyChanged(ssm, ssm2044_float(ssm, i, f),
                      {<<"cutoff_float", "resonance_float", "gain_float">>[i]})
    /\ \A i \in 1..3 : \A n \in IntIn :
          OnlyChanged(ssm, ssm2044_int(ssm, i, n),
                      {<<"cutoff_float", "resonance_float", "gain_float">>[i]})
    /\ \A f \in ParamIn : OnlyChanged(vca, moddemix_vca_float(vca, 1, f), {"level_float"})
    /\ \A n \in IntIn : OnlyChanged(vca, moddemix_vca_int(vca, 1, n), {"level_float"})
    /\ \A i \in 0..1 : \A f \in ParamIn :
          OnlyChanged(noi, noises_float(noi, i, f), {<<"type_float", "amplitude_float">>[i + 1]})

C11_FrequencyUsedInRange ==
    /\ run = "easelfo" =>
          \A f \in FreqIn : easelfo_sample_freq(elfo, f) \in 0..Fl(ELFO_MAX_FREQ)
    /\ run = "harmosc" =>
          \A f \in HoscFreqIn : harmosc_sample_freq(hosc, f) \in 0..Fl(HOSC_MAX_FREQ)
    /\ run = "ramplfo" =>
          \A f \in FreqIn : ramplfo_sample_freq(rlfo, f) \in 0..Fl(ELFO_MAX_FREQ)

(***************************************************************************)
(* noises~: seeded reproducibility and generator synchronisation           *)
(***************************************************************************)
\* Both objects hold the same seed and have written sample k since, and up
\* to sample k both ran with type 0 and with the same amplitude.
SameSeedWhite(k) ==
    /\ nrun[1].seed # NoSeed /\ nrun[1].seed = nrun[2].seed
    /\ k <= Len(nrun[1].hist) /\ k <= Len(nrun[2].hist)
    /\ \A j \in 1..k : /\ nrun[1].hist[j].type = 0 /\ nrun[2].hist[j].type = 0
                       /\ nrun[1].hist[j].amp = nrun[2].hist[j].amp

\* When the seed arrived the smoothed type of object i was 0 and its smoothed
\* amplitude was the amplitude it ran with up to sample k.
SettledAtSeed(i, k) ==
    /\ nrun[i].snap.type_smooth = 0
    /\ \A j \in 1..k : nrun[i].snap.amplitude_smooth = nrun[i].hist[j].amp

\* C12: two separately constructed noises~ objects given the same seed and
\* run with type 0 and the same amplitude write identical samples, sample for
\* sample, however their sample loops are interleaved and whatever each did
\* before it received the seed.
C12_SameSeedSameOutput ==
    \A k \in 1..MaxNzSamples :
        SameSeedWhite(k) => nrun[1].hist[k].out = nrun[2].hist[k].out

\* C12 (amended): two separately constructed noises~ objects given the same
\* seed and run with type 0 and the same amplitude write identical samples,
\* sample for sample, however their sample loops are interleaved, provided
\* that when the seed arrives the smoothed type of each is 0 and the smoothed
\* amplitude of each is the amplitude it then runs with; samples processed
\* before the seed with type 0 and that amplitude do not matter.
C12_SameSeedSettledSameOutput ==
    \A k \in 1..MaxNzSamples :
        SameSeedWhite(k) /\ SettledAtSeed(1, k) /\ SettledAtSeed(2, k)
            => nrun[1].hist[k].out = nrun[2].hist[k].out

\* Both objects seeded alike after one of them had already written a sample,
\* both settled, and a non-zero first sample written by each.
C12_Witness ==
    /\ SameSeedWhite(1) /\ SettledAtSeed(1, 1) /\ SettledAtSeed(2, 1)
    /\ nrun[1].samples > Len(nrun[1].hist)
    /\ nrun[2].samples = Len(nrun[2].hist)
    /\ nrun[1].hist[1].out # 0

\* The random-generator state and the memory of every generator's filter.
GenState(x) ==
    <<x.rng_state, x.pink_index, x.pink_rows, x.pink_running_sum, x.brown_state,
      x.prev_white, x.prev_blue, x.grey_x1, x.grey_x2, x.grey_y1, x.grey_y2,
      x.dc_block_x1, x.dc_block_y1>>

\* Two runs from the same seed, N samples each, the DC blocker (which the seed
\* does not reset) starting from the same memory.
SameStart ==
    /\ nrun[1].seed # NoSeed /\ nrun[1].seed = nrun[2].seed
    /\ nrun[1].snap.dc = nrun[2].snap.dc
    /\ Len(nrun[1].hist) = Len(nrun[2].hist)

\* C13: every type is generated on every sample whatever the selector, so
\* after N samples the random-generator state and every generator's filter
\* state are the same for two runs that start from the same seed and differ
\* only in their type selectors, amplitudes and morphing setting.
C13_GeneratorsIndependentOfSelector ==
    SameStart => GenState(nz[1]) = GenState(nz[2])

\* Two runs of two samples that differ in selector, amplitude and morphing.
C13_Witness ==
    /\ SameStart /\ Len(nrun[1].hist) = 2
    /\ nrun[1].hist[1].type # nrun[2].hist[1].type
    /\ nrun[1].hist[2].amp # nrun[2].hist[2].amp
    /\ nz[1].morphing_enabled # nz[2].morphing_enabled

\* Selectors of the allowed range [0, num - 1], in quarters of a type.
Selectors(num) == {k * (MILLI \div 4) : k \in 0..(4 * (num - 1))}

\* The types left of and right of a selector, as positions of noise_types.
Lower(t) == t \div MILLI + 1
Upper(t) == t \div MILLI + 2

\* noise_types with every entry but the two next to the selector replaced.
OnlyAdjacent(noise_types, t) ==
    [k \in DOMAIN noise_types |->
        IF k \in {Lower(t), Upper(t)} THEN noise_types[k] ELSE 12345]

\* 22 samples made of seven, for the 22-type selection.
Types22(g) ==
    [k \in 1..NUM_NOISE_TYPES_22 |-> g[((k - 1) % NUM_NOISE_TYPES) + 1] + k]

\* The 7-type morph of the samples g reads only the two adjacent types and
\* is exact at whole selectors; the same of the 22-type morph.
MorphOk(g) ==
    \A t \in Selectors(NUM_NOISE_TYPES), m \in 0..1 :
        /\ Lower(t) \in 1..NUM_NOISE_TYPES
        /\ noises_mix(OnlyAdjacent(g, t), m, t) = noises_mix(g, m, t)
        /\ t % MILLI = 0 => noises_mix(g, m, t) = DivNearest(g[Lower(t)] * 2, 5)

Morph22Ok(g) ==
    \A t \in Selectors(NUM_NOISE_TYPES_22) :
        /\ Lower(t) \in 1..NUM_NOISE_TYPES_22
        /\ noises22_mix(OnlyAdjacent(g, t), t) = noises22_mix(g, t)
        /\ t % MILLI = 0 => noises22_mix(g, t) = DivNearest(g[Lower(t)] * 2, 5)

\* C14: for every selector of the allowed range the morph reads only the two
\* adjacent types floor(selector) and floor(selector) + 1, and every type it
\* reads exists; at fractional position 0.0 the result is exactly the lower
\* type's sample times the output gain, and one whole step further (position
\* 1.0) exactly the upper type's sample times the output gain.  Checked on
\* the samples the generators of each object produce next, in the 7-type and
\* in the 22-type morph.
C14_MorphReadsAdjacentTypes ==
    \A i \in NzInst :
        \E g \in {noises_all_types(nz[i])[2]} :
            MorphOk(g) /\ \E h \in {Types22(g)} : Morph22Ok(h)

\* An object that has written samples, whose next pink and brown samples
\* differ: the morph at selector 1.0 is the pink sample, at 2.0 the brown
\* sample, and in between a blend that is neither.
C14_Witness ==
    /\ nrun[1].samples = MaxNzSamples
    /\ \E g \in {noises_all_types(nz[1])[2]} :
          /\ g[2] # g[3]
          /\ noises_mix(g, 1, MILLI) = DivNearest(g[2] * 2, 5)
          /\ noises_mix(g, 1, 2 * MILLI) = DivNearest(g[3] * 2, 5)
          /\ noises_mix(g, 1, 3 * (MILLI \div 2))
               \notin {0, DivNearest(g[2] * 2, 5), DivNearest(g[3] * 2, 5)}

(***************************************************************************)
(* State shared between objects of one module                              *)
(***************************************************************************)
\* C15: no mutable state is shared between objects of a module: under any
\* interleaving of the sample loops of two decay~ objects, AD mode included,
\* every sample written by the first is the sample it writes when the
\* second does not exist.
C15_DecayOutputAsIfAlone == dp.out = dp.ref

(***************************************************************************)
(* cycle.fold~: range of the folding function                              *)
(***************************************************************************)
\* C16: for every input sample in [-1,1], fold amount in [0,1], frequency,
\* folding algorithm and anti-aliasing setting, fold_wave_improved ends its
\* reflection loop (after at most 50 reflections, fewer than FoldStepCap)
\* and returns a value within [-1,1].
C16_FoldWithinUnitRange ==
    fw.calls = 1 =>
        /\ fw.steps <= 50
        /\ fw.steps < FoldStepCap
        /\ fw.out \in (-MILLI)..MILLI

\* A full-scale input at full fold amount without anti-aliasing limit went
\* through the reflection loop more than once; the tanh and the hybrid
\* algorithm are reached from the same call set.
C16_Witness ==
    /\ fw.calls = 1
    /\ fw.input = 4 * (MILLI \div 4)
    /\ fw.fold_amount = MILLI
    /\ cfold.folding_algorithm = 0
    /\ fw.steps > 1

(***************************************************************************)
(* harmosc~: the harmonic mix                                              *)
(***************************************************************************)
\* C17: after any sequence of falloff, all, odd, even, amps and attribute
\* operations every harmonic amplitude is non-negative and the amplitudes
\* sum to exactly 1 or are all 0, for every harmonic count.
C17_AmplitudesSumToOne ==
    run = "harmosc" =>
        /\ \A i \in 1..hosc.num_harmonics : hosc.amplitudes[i] >= 0
        /\ \/ SeqSum(hosc.amplitudes) = AMP_ONE
           \/ \A i \in 1..hosc.num_harmonics : hosc.amplitudes[i] = 0

\* C17 (amended): every amplitude is non-negative, and the amplitudes are
\* all 0 or sum to 1 within the rounding of the divisions by the total: half
\* a unit in the last place for each harmonic.
C17_AmplitudesSumToOneRounded ==
    run = "harmosc" =>
        /\ \A i \in 1..hosc.num_harmonics : hosc.amplitudes[i] >= 0
        /\ \/ 2 * Abs(SeqSum(hosc.amplitudes) - AMP_ONE) <= hosc.num_harmonics
           \/ \A i \in 1..hosc.num_harmonics : hosc.amplitudes[i] = 0

\* Custom amplitudes of unequal size were given, some harmonics were then
\* switched off by odd or even, and what is left was normalised again.
C17_Witness ==
    /\ run = "harmosc"
    /\ hosc.custom_amps = 1
    /\ hosc.odd_only + hosc.even_only = 1
    /\ hosc.num_harmonics >= 4
    /\ \E i, j \in 1..hosc.num_harmonics :
          /\ hosc.amplitudes[i] > hosc.amplitudes[j]
          /\ hosc.amplitudes[j] > 0
    /\ \E i \in 1..hosc.num_harmonics :
          hosc.harmonic_states[i] = 0 /\ hosc.amplitudes[i] = 0


\* Harmonic i is enabled and sounds.
Sounding(i) == hosc.harmonic_states[i] = 1 /\ hosc.amplitudes[i] > 0

\* C18: after even only even-numbered harmonics are enabled and have
\* non-zero amplitude, after odd only odd-numbered harmonics are, and after
\* all every harmonic is enabled, in automatic-falloff and in
\* custom-amplitude mode.  (all_on, odd_only and even_only are the object's
\* record of the last of the three messages; amps clears them.)
C18_OnlyEvenOnlyOddAll ==
    run = "harmosc" =>
        \A i \in 1..hosc.num_harmonics :
            /\ hosc.even_only = 1 /\ (hosc.harmonic_states[i] = 1 \/ Sounding(i)) => i % 2 = 0
            /\ hosc.odd_only = 1 /\ (hosc.harmonic_states[i] = 1 \/ Sounding(i)) => i % 2 = 1
            /\ hosc.all_on = 1 => hosc.harmonic_states[i] = 1

\* C18 (amended): after even exactly the fundamental and the even-numbered
\* harmonics are enabled, after odd exactly the odd-numbered ones, after all
\* every harmonic; a harmonic that is not enabled has amplitude 0.
C18_EvenKeepsFundamental ==
    run = "harmosc" =>
        \A i \in 1..hosc.num_harmonics :
            /\ hosc.even_only = 1 => (hosc.harmonic_states[i] = 1 <=> (i = 1 \/ i % 2 = 0))
            /\ hosc.odd_only = 1 => (hosc.harmonic_states[i] = 1 <=> i % 2 = 1)
            /\ hosc.all_on = 1 => hosc.harmonic_states[i] = 1
            /\ hosc.all_on + hosc.odd_only + hosc.even_only = 1 /\ hosc.harmonic_states[i] = 0
                   => hosc.amplitudes[i] = 0

\* even arrived in custom-amplitude mode at an object of at least four
\* harmonics, and an even harmonic above the second sounds.
C18_Witness ==
    /\ run = "harmosc"
    /\ hosc.even_only = 1
    /\ hosc.custom_amps = 1
    /\ hosc.num_harmonics >= 4
    /\ Sounding(4)
    /\ hosc.harmonic_states[3] = 0

(***************************************************************************)
(* ssm2044~: bounded filter states                                         *)
(***************************************************************************)
\* C19: for every resonance at or below the self-oscillation threshold,
\* every setting of the warmth, character, compensation and self-oscillation
\* attributes and every input in [-1,1], the four stage states and the
\* output (the feedback sample) stay within a fixed bound; the bound taken
\* is SsmMaxLevel, 64 times full scale.
C19_FilterStatesBounded ==
    run = "ssm2044" =>
        \A v \in {ssm.state1, ssm.state2, ssm.state3, ssm.state4, ssm.feedback_sample} :
            Abs(v) <= SsmMaxLevel

(***************************************************************************)
(* cycle-2d~: the table slots                                              *)
(***************************************************************************)
\* The fields of two objects agree except for the table count and slots.
SameButTables(x, y) ==
    [x EXCEPT !.num_custom_tables = 0, !.custom_tables = <<>>]
        = [y EXCEPT !.num_custom_tables = 0, !.custom_tables = <<>>]

\* The load is one that fails: fewer than three arguments, all slots full,
\* buffer not found, not readable, or empty.
LoadFails(x, argv) ==
    \/ Len(argv) < 3
    \/ x.num_custom_tables >= MAX_CUSTOM_TABLES
    \/ BufferOf(argv[1]).found = 0
    \/ BufferOf(argv[1]).lockable = 0
    \/ Len(BufferOf(argv[1]).frames) = 0

\* C20: the number of custom tables is always between 0 and 16; a buffer
\* load that fails leaves the count and every stored table and position
\* (the whole object) unchanged; a successful load raises the count by
\* exactly one and writes only the newly added slot.
C20_TableCountAndSlots ==
    run = "cycle2d" =>
        /\ c2d.num_custom_tables \in 0..16
        /\ MAX_CUSTOM_TABLES = 16
        /\ \A argv \in BufferArgsIn, stray \in StrayIn :
              \E y \in {cycle2d_buffer(c2d, argv, stray)} :
                  IF LoadFails(c2d, argv) THEN y = c2d
                  ELSE /\ y.num_custom_tables = c2d.num_custom_tables + 1
                       /\ \A k \in 1..MAX_CUSTOM_TABLES :
                              k # y.num_custom_tables
                                  => y.custom_tables[k] = c2d.custom_tables[k]
                       /\ y.custom_tables[y.num_custom_tables].active = 1
                       /\ SameButTables(c2d, y)

\* All 16 slots are filled, the last by a load with clamped positions.
C20_Witness ==
    /\ run = "cycle2d"
    /\ c2d.num_custom_tables = MAX_CUSTOM_TABLES
    /\ c2d.custom_tables[MAX_CUSTOM_TABLES].active = 1
    /\ c2d.custom_tables[MAX_CUSTOM_TABLES].x_pos = One
    /\ c2d.custom_tables[MAX_CUSTOM_TABLES].y_pos = 0
    /\ c2d.custom_tables[1].wavetable # c2d.custom_tables[2].wavetable

(***************************************************************************)
(* cycle-2d~: the sample written                                           *)
(***************************************************************************)
\* cycle-2d~ after construction and a first dsp64 call, with no custom table
\* or with one loaded; its position floats, its attributes and its sample
\* loop.
BilinearCounts == {<<0, 0, 0, 0>>, <<0, 1, 1, 0>>}
BilinearLoads == {<<>>, <<"wave", 2 * One, -One>>}

InitBilinear ==
    /\ run = "cycle2d"
    /\ \E count \in BilinearCounts, argv \in BilinearLoads :
          c2d = cycle2d_buffer(cycle2d_dsp64(cycle2d_new, count, SysSr), argv, 0)
    /\ elfo = easelfo_new /\ rlfo = ramplfo_new /\ cfold = cyclefold_new
    /\ senv = slewenv_new /\ trig = 0
    /\ dec = decay_new /\ attack_samples = 0 /\ dout = 0 /\ since = 0
    /\ vca = moddemix_vca_new /\ noi = noises_new /\ vac = vactrol_new
    /\ nrun = [i \in NzInst |-> NzRunInit] /\ dp = DpInit /\ fw = FwInit
    /\ ssm_n = 0 /\ obs = ObsInit
    /\ NzConstructed(<<0, 0>>) /\ hosc = harmosc_new /\ ssm = ssm2044_new

NextBilinear ==
    \/ C2D_PerformOut \/ C2D_FloatPosition \/ C2D_AttrInterpolation \/ C2D_AttrCornerMode

SpecBilinear == InitBilinear /\ [][NextBilinear]_vars

\* The last call was a sample of the loop in bilinear mode (interpolation 0)
\* with no custom table loaded.
BilinearNoCustom ==
    /\ run = "cycle2d"
    /\ obs.call = "perform"
    /\ c2d.interpolation = 0
    /\ c2d.num_custom_tables = 0

\* The table of the corner at the position (x_pos, y_pos).
CornerAt(x_pos, y_pos) ==
    CASE x_pos = 0 /\ y_pos = 0 -> CORNER_SINE
      [] x_pos = One /\ y_pos = 0 -> CORNER_SAW
      [] x_pos = 0 /\ y_pos = One -> CORNER_TRIANGLE
      [] OTHER -> CORNER_SQUARE

\* C21: in bilinear mode with zero custom tables loaded, every sample
\* written equals the corner interpolation of the four corner tables at the
\* phase read, and at the positions (0,0), (1,0), (0,1), (1,1) it equals the
\* lookup of the one corner table of that position, which in the default
\* corner set is the sine, the saw, the triangle and the square table.
C21_BilinearIsCornerInterpolation ==
    BilinearNoCustom =>
        /\ obs.out = corner_interpolate(c2d, obs.x_pos, obs.y_pos, obs.read_phase)
        /\ obs.x_pos \in {0, One} /\ obs.y_pos \in {0, One} =>
              obs.out = wavetable_lookup(
                            c2d.corner_tables[CornerAt(obs.x_pos, obs.y_pos) + 1],
                            obs.read_phase)
        /\ c2d.corner_mode = 0 =>
              c2d.corner_tables =
                  <<generate_sine_table(CornerSize), generate_triangle_table(CornerSize),
                    generate_saw_table(CornerSize), generate_square_table(CornerSize)>>

\* A sample written at the corner (1,0) in the default corner set, at a
\* phase where the saw table and the triangle table differ.
C21_Witness ==
    /\ BilinearNoCustom
    /\ c2d.corner_mode = 0
    /\ obs.x_pos = One /\ obs.y_pos = 0
    /\ obs.read_phase > 0
    /\ obs.out = wavetable_lookup(generate_saw_table(CornerSize), obs.read_phase)
    /\ obs.out # wavetable_lookup(generate_triangle_table(CornerSize), obs.read_phase)

(***************************************************************************)
(* easelfo~: the easing function selected and the phase passed to it       *)
(***************************************************************************)
\* easelfo~ after construction and a first dsp64 call; ints at every inlet,
\* floats at the easing inlet, the bang, the attributes and the sample loop.
EaseCounts == {<<0, 0, 0>>, <<0, 0, 1>>, <<0, 1, 0>>}

InitEase ==
    /\ run = "easelfo"
    /\ \E count \in EaseCounts : elfo = easelfo_dsp64(easelfo_new, count, SysSr)
    /\ c2d = cycle2d_new /\ rlfo = ramplfo_new /\ cfold = cyclefold_new
    /\ senv = slewenv_new /\ trig = 0
    /\ dec = decay_new /\ attack_samples = 0 /\ dout = 0 /\ since = 0
    /\ vca = moddemix_vca_new /\ noi = noises_new /\ vac = vactrol_new
    /\ nrun = [i \in NzInst |-> NzRunInit] /\ dp = DpInit /\ fw = FwInit
    /\ ssm_n = 0 /\ obs = ObsInit
    /\ NzConstructed(<<0, 0>>) /\ hosc = harmosc_new /\ ssm = ssm2044_new

NextEase ==
    \/ ELFO_PerformOut \/ ELFO_Int \/ ELFO_FloatEasing \/ ELFO_Bang
    \/ ELFO_AttrMirrorMode \/ ELFO_AttrEasingCurve \/ ELFO_AttrPhaseLock

SpecEase == InitEase /\ [][NextEase]_vars

\* C22: with phase lock enabled, in every mirror mode and for every phase
\* and phase offset, the phase passed to the easing function is one of the
\* 16 values k/16, k = 0..15.
C22_PhaseLockSixteenValues ==
    (run = "easelfo" /\ obs.call = "perform" /\ elfo.phase_lock # 0) =>
        obs.eased_phase \in {k * (One \div 16) : k \in 0..15}

\* C23: with no stream at the easing inlet (and smoothing off), every sample
\* selects the easing function last sent to the easing inlet or written to
\* the easing attribute, which easing_float holds, clamped to 0..11.
C23_EasingInletSelects ==
    (run = "easelfo" /\ obs.call = "perform"
       /\ elfo.shape_has_signal = 0 /\ elfo.smoothing = 0) =>
        obs.easing = CLAMP(elfo.easing_float, 0, ELFO_MAX_EASING * One) \div One

\* harmosc~ construction with allocation outcomes.  alloc holds the results of
\* the five sysmem_newptr calls of the constructor in the order amplitudes,
\* harmonic_states, phase_increments, detune_offsets, sine_table: 1 for a
\* pointer, 0 for NULL.
AllocIn == [1..5 -> {0, 1}]

\* harmosc_build_sine_table: a void function, which returns early when its
\* allocation fails.
harmosc_build_sine_table(x, allocated) == [x EXCEPT !.sine_table = allocated]

\* harmosc_new: what it returns ("NULL" or the object x) and the object.
harmosc_new_alloc(num, alloc) ==
    IF alloc[1] = 0 \/ alloc[2] = 0 \/ alloc[3] = 0 \/ alloc[4] = 0
    THEN [returned |-> "NULL", x |-> harmosc_build_sine_table(harmosc_new_at(num), 0)]
    ELSE [returned |-> "x", x |-> harmosc_build_sine_table(harmosc_new_at(num), alloc[5])]

\* What one iteration of the sample loop of harmosc_perform64 reads of the
\* sine table: nothing when no harmonic has a positive amplitude, otherwise
\* sine_table[table_index] through the pointer the object holds.
harmosc_sample_table(x, freq_in, falloff_in) ==
    LET R(x1) == IF \E h \in 1..x1.num_harmonics : x1.amplitudes[h] > 0
                 THEN (IF x.sine_table # 0 THEN "allocated" ELSE "NULL")
                 ELSE "none"
    IN  R(harmosc_sample(x, freq_in, falloff_in))

\* The host runs messages and sample processing only on an object the
\* constructor returned.
HoscCreated == run = "harmosc" /\ obs.returned = "x"

HOSC_PerformTable ==
    /\ HoscCreated
    /\ \E f \in HoscFreqIn, fo \in FalloffIn :
          /\ hosc' = harmosc_sample(hosc, f, fo)
          /\ obs' = [call |-> "perform", returned |-> obs.returned, alloc |-> obs.alloc,
                     sine_table_read |-> harmosc_sample_table(hosc, f, fo)]
    /\ UNCHANGED <<notObs, fltVars, run, c2d, elfo, rlfo, cfold, senv, trig, decVars>>

InitHarmNew ==
    /\ run = "harmosc"
    /\ \E num \in 1..MaxHarmCount, alloc \in AllocIn :
          /\ hosc = harmosc_new_alloc(num, alloc).x
          /\ obs = [call |-> "new", returned |-> harmosc_new_alloc(num, alloc).returned,
                    alloc |-> alloc]
    /\ c2d = cycle2d_new /\ elfo = easelfo_new /\ rlfo = ramplfo_new
    /\ cfold = cyclefold_new /\ senv = slewenv_new /\ trig = 0
    /\ dec = decay_new /\ attack_samples = 0 /\ dout = 0 /\ since = 0
    /\ vca = moddemix_vca_new /\ noi = noises_new /\ vac = vactrol_new
    /\ nrun = [i \in NzInst |-> NzRunInit] /\ dp = DpInit /\ fw = FwInit
    /\ ssm_n = 0
    /\ NzConstructed(<<0, 0>>) /\ ssm = ssm2044_new

NextHarmNew ==
    \/ HOSC_PerformTable
    \/ HoscCreated /\ HOSC_Float
    \/ HoscCreated /\ HOSC_Dsp

SpecHarmNew == InitHarmNew /\ [][NextHarmNew]_vars

\* C24: when one of the five allocations of the constructor fails (the
\* amplitudes, harmonic states, phase increments, detune offsets or the sine
\* table), the constructor returns no instance, and sample processing never
\* reads a table through a NULL pointer.
C24_AllocationFailureNoInstance ==
    (run = "harmosc" /\ obs.call \in {"new", "perform"}) =>
        /\ (\E i \in 1..5 : obs.alloc[i] = 0) => obs.returned = "NULL"
        /\ obs.call = "perform" => obs.sine_table_read # "NULL"

\* noises~ between samples: the session-configuration call at any time (the
\* host calls dsp64 each time the audio is switched on) and the attributes.
noises_attr_setdcblocking(x, v) ==
    [x EXCEPT !.dc_blocking_enabled = IF v # 0 THEN 1 ELSE 0,
              !.dc_block_x1 = 0, !.dc_block_y1 = 0]

noises_attr_setfilterquality(x, v) ==
    noises_init_generators([x EXCEPT !.filter_quality = Fmax(0, Fmin(2, v))])

\* The generator and filter memories of a noises~ object, apart from the
\* memory of the DC blocker.
NzGenCells(x) ==
    <<x.rng_state, x.pink_index, x.pink_running_sum, x.pink_rows, x.brown_state,
      x.prev_white, x.prev_blue, x.grey_x1, x.grey_x2, x.grey_y1, x.grey_y2>>

NzDcCells(x) == <<x.dc_block_x1, x.dc_block_y1>>

\* What a call outside the sample loop found in the state cells.
NzCellsObs(call, x) == [call |-> call, gen |-> NzGenCells(x), dc |-> NzDcCells(x)]

NzAttrIn == {0, 1, 3}

NZC_Dsp ==
    /\ run = "noises"
    /\ nz' = [nz EXCEPT ![1] = noises_dsp64(nz[1], <<0, 0>>, NzSr)]
    /\ obs' = NzCellsObs("dsp64", nz[1])
    /\ UNCHANGED <<nrun, dp, fw, ssm_n, run, oneVars>>

NZC_Perform ==
    /\ run = "noises"
    /\ nz[1].dsp_added = 1
    /\ nrun[1].samples < MaxNzSamples
    /\ \E r \in {noises_sample(nz[1], 0, 0)} : nz' = [nz EXCEPT ![1] = r[1]]
    /\ nrun' = [nrun EXCEPT ![1].samples = @ + 1]
    /\ obs' = NzCellsObs("perform", nz[1])
    /\ UNCHANGED <<dp, fw, ssm_n, run, oneVars>>

NZC_AttrMorphing ==
    /\ run = "noises"
    /\ \E v \in NzAttrIn : nz' = [nz EXCEPT ![1] = noises_attr_setmorphing(nz[1], v)]
    /\ obs' = NzCellsObs("morphing", nz[1])
    /\ UNCHANGED <<nrun, dp, fw, ssm_n, run, oneVars>>

NZC_AttrDcBlocking ==
    /\ run = "noises"
    /\ \E v \in NzAttrIn : nz' = [nz EXCEPT ![1] = noises_attr_setdcblocking(nz[1], v)]
    /\ obs' = NzCellsObs("dcblocking", nz[1])
    /\ UNCHANGED <<nrun, dp, fw, ssm_n, run, oneVars>>

NZC_AttrFilterQuality ==
    /\ run = "noises"
    /\ \E v \in NzAttrIn : nz' = [nz EXCEPT ![1] = noises_attr_setfilterquality(nz[1], v)]
    /\ obs' = NzCellsObs("filterquality", nz[1])
    /\ UNCHANGED <<nrun, dp, fw, ssm_n, run, oneVars>>

InitCells ==
    /\ run = "noises"
    /\ NzConstructed(<<0, 0>>)
    /\ Constructed /\ hosc = harmosc_new /\ ssm = ssm2044_new

NextCells ==
    \/ NZC_Dsp \/ NZC_Perform
    \/ NZC_AttrMorphing \/ NZC_AttrDcBlocking \/ NZC_AttrFilterQuality

SpecCells == InitCells /\ [][NextCells]_vars

\* C25: outside sample processing the state cells change only by a reset or
\* seed event and by a write to the attribute tied to them: dsp64 and a write
\* to the morphing attribute leave every generator, filter and DC blocker
\* memory as it was, and the DC-blocking attribute changes the DC blocker
\* memory only (filter_quality, which re-initialises the filters, is taken as
\* tied to the memories it resets).
C25_StateCellsKept ==
    (run = "noises" /\ obs.call \in {"dsp64", "morphing", "dcblocking"}) =>
        /\ NzGenCells(nz[1]) = obs.gen
        /\ obs.call # "dcblocking" => NzDcCells(nz[1]) = obs.dc

\* C26: in AD mode every bang starts a new attack phase: when a bang has
\* been handled and no sample written since, the attack counter is at its
\* initial value 0, so that the samples after the bang run through the whole
\* attack ramp.
C26_BangRestartsAttack ==
    (run = "decay" /\ since = 0 /\ dec.is_active = 1 /\ dec.envelope_mode = 1) =>
        attack_samples = 0

\* The settings kept in two fields: decay~, easelfo~, vactrol~ and harmosc~
\* with the messages and attributes that write one of the fields; vactrol~
\* is constructed with and without a poles attribute and a poles argument.
VacBoxIn == {VacNone, 1, 2}

InitSync ==
    /\ run \in {"decay", "easelfo", "vactrol", "harmosc"}
    /\ c2d = cycle2d_new /\ elfo = easelfo_new /\ rlfo = ramplfo_new
    /\ cfold = cyclefold_new /\ senv = slewenv_new /\ trig = 0
    /\ dec = decay_new /\ attack_samples = 0 /\ dout = 0 /\ since = 0
    /\ vca = moddemix_vca_new /\ noi = noises_new
    /\ \E attr_poles \in VacBoxIn, arg \in VacBoxIn :
          /\ run = "vactrol" \/ (attr_poles = VacNone /\ arg = VacNone)
          /\ vac = vactrol_new_at(attr_poles, arg)
    /\ nrun = [i \in NzInst |-> NzRunInit] /\ dp = DpInit /\ fw = FwInit
    /\ ssm_n = 0 /\ obs = ObsInit
    /\ NzConstructed(<<0, 0>>) /\ hosc = harmosc_new /\ ssm = ssm2044_new

NextSync ==
    \/ DEC_Retrig \/ DEC_AttrRetriggerMode \/ DEC_AttrClickProtection \/ DEC_Float
    \/ ELFO_Float \/ ELFO_Int \/ ELFO_Mirror
    \/ ELFO_AttrMirrorMode \/ ELFO_AttrEasingCurve
    \/ VAC_Poles \/ VAC_AttrPoles
    \/ HOSC_Falloff \/ HOSC_Amps \/ HOSC_AttrAmplitudeControl

SpecSync == InitSync /\ [][NextSync]_vars

\* C27: every setting stored in a legacy field and in an attribute field has
\* the two fields equal after the constructor and after every message and
\* attribute write: in decay~ retrig_mode = retrigger_mode and
\* smooth_samples_setting = click_protection, in easelfo~ easing_float =
\* easing_curve and mirror_mode = mirror_mode_attr, in vactrol~ pole_count =
\* poles, in harmosc~ custom_amps = amplitude_control.
C27_LegacyAndAttributeFieldsEqual ==
    /\ run = "decay" =>
          /\ dec.retrig_mode = dec.retrigger_mode
          /\ dec.smooth_samples_setting = dec.click_protection
    /\ run = "easelfo" =>
          /\ elfo.easing_float = elfo.easing_curve * One
          /\ elfo.mirror_mode = elfo.mirror_mode_attr
    /\ run = "vactrol" => vac.pole_count = vac.poles
    /\ run = "harmosc" => hosc.custom_amps = hosc.amplitude_control

\* decay~ with its click protection rewritten while a crossfade is under
\* way: bangs, samples, peak changes and the click_protection attribute.
DecClickFadeIn == {0, 1, 3}

DEC_AttrClickFade ==
    /\ run = "decay"
    /\ \E v \in DecClickFadeIn : dec' = decay_attr_setclickprotection(dec, v)
    /\ since' = Min(since, 1)
    /\ UNCHANGED <<insVars, fltVars, run, c2d, elfo, rlfo, cfold, hosc, senv, trig, attack_samples, dout>>

NextDecayFade ==
    \/ DEC_Dsp \/ DEC_Bang \/ DEC_Perform \/ DEC_Peak \/ DEC_AttrClickFade
    \/ DEC_AttrRetriggerMode

SpecDecayFade == InitDecay /\ [][NextDecayFade]_vars

\* C28: whenever the remaining crossfade count smooth_samples is greater
\* than zero, the click-protection length is at least that count, so the
\* crossfade progress (click_protection - smooth_samples) / click_protection
\* the next sample computes is in [0,1) and its divisor is not zero.
C28_CrossfadeWithinLength ==
    (run = "decay" /\ dec.smooth_samples > 0) =>
        /\ dec.click_protection >= dec.smooth_samples
        /\ dec.click_protection # 0
        /\ (dec.click_protection - dec.smooth_samples) \in 0..(dec.click_protection - 1)

\* The sample slewenv_perform64 writes: current_output * trigger_amplitude,
\* in units of 1 / (ENV_ONE * MILLI).
slewenv_out(x) == x.current_output * x.trigger_amplitude

\* C29: after any sequence of triggers, parameter changes, loop changes and
\* processed samples the state is idle (0), rising (1) or falling (2), the
\* integrator value is in [0,1] and exactly 0 whenever the state is idle,
\* the trigger amplitude is in [0,10], and so the output is in [0,10].
C29_SlewStateAndRanges ==
    run = "slewenv" =>
        /\ senv.state \in {0, 1, 2}
        /\ senv.current_output \in 0..ENV_ONE
        /\ senv.state = 0 => senv.current_output = 0
        /\ senv.trigger_amplitude \in 0..SENV_MAX_AMP
        /\ slewenv_out(senv) \in 0..(ENV_ONE * SENV_MAX_AMP)

\* A trigger of 20.0 was clamped to the amplitude 10.0 and the integrator has
\* turned at the top: it is falling, strictly between the bounds, with
\* looping on.
C29_Witness ==
    /\ run = "slewenv"
    /\ senv.state = 2 /\ senv.current_output > 0 /\ senv.current_output < ENV_ONE
    /\ senv.trigger_amplitude = SENV_MAX_AMP /\ senv.loop_enabled = 1

\* The indices the copy loop of cycle2d_buffer uses: those it reads the
\* buffer at and those it writes the table at; copied is 0 when the message
\* returns before the loop.
cycle2d_buffer_indices(x, argv) ==
    LET Idx(offset, buffer_frames) ==
            [call |-> "buffer", copied |-> 1, buffer_frames |-> buffer_frames,
             read_index |-> {CRem(offset + i, buffer_frames) : i \in 0..(WAVETABLE_SIZE - 1)},
             write_index |-> 0..(WAVETABLE_SIZE - 1)]
        None == [call |-> "buffer", copied |-> 0, buffer_frames |-> 0,
                 read_index |-> {}, write_index |-> {}]
    IN  IF Len(argv) < 3 \/ x.num_custom_tables >= MAX_CUSTOM_TABLES THEN None
        ELSE IF BufferOf(argv[1]).found = 0 \/ BufferOf(argv[1]).lockable = 0
                \/ Len(BufferOf(argv[1]).frames) = 0 THEN None
        ELSE Idx(IF Len(argv) >= 4 THEN argv[4] ELSE 0, Len(BufferOf(argv[1]).frames))

\* Offsets: none, negative, inside the buffer and beyond its end.
BufferOffsetArgsIn ==
    {<<"wave", 0, 0>>, <<"wave", 0, 0, -1>>, <<"wave", 0, 0, -2>>, <<"wave", 0, 0, 1>>,
     <<"wave", 0, 0, 3>>, <<"empty", 0, 0, -1>>}

\* Loads of one run.
MaxBufferLoads == 3

C2D_BufferOut ==
    /\ run = "cycle2d"
    /\ c2d.num_custom_tables < MaxBufferLoads
    /\ \E argv \in BufferOffsetArgsIn, stray \in StrayIn :
          /\ c2d' = cycle2d_buffer(c2d, argv, stray)
          /\ obs' = cycle2d_buffer_indices(c2d, argv)
    /\ UNCHANGED <<notObs, fltVars, run, elfo, rlfo, cfold, hosc, senv, trig, decVars>>

InitBufferOut ==
    /\ run = "cycle2d"
    /\ Constructed /\ NzConstructed(<<0, 0>>) /\ hosc = harmosc_new /\ ssm = ssm2044_new

NextBufferOut == C2D_BufferOut \/ C2D_FloatPosition

SpecBufferOut == InitBufferOut /\ [][NextBufferOut]_vars

\* C30: for every offset argument of the buffer message, negative ones and
\* ones beyond the buffer length included, and every buffer with at least
\* one frame, every index the copy reads the buffer at is in
\* [0, buffer length) and every index it writes the table at is in
\* [0, table size).
C30_BufferCopyIndicesInRange ==
    (run = "cycle2d" /\ obs.call = "buffer" /\ obs.copied = 1) =>
        /\ obs.read_index \subseteq 0..(obs.buffer_frames - 1)
        /\ obs.write_index \subseteq 0..(WAVETABLE_SIZE - 1)

====
